---------------------------- MODULE Spec2Model ----------------------------
(***************************************************************************)
(* Point location by the chain method (algogears/chain.py) on a planar     *)
(* straight-line graph (algogears/core.py): orientation, regularization,   *)
(* weight balancing, monotone chain extraction, the chains search tree and *)
(* the query.  Coordinates are integers; a point is a pair <<x, y>>; an    *)
(* oriented edge is a pair <<first, second>> of points; edge weights are   *)
(* kept in a function on the edge set (the edge objects are mutated in     *)
(* place by the program, their endpoints never are).                       *)
(***************************************************************************)
EXTENDS Integers, Sequences, FiniteSets, TLC

(***************************************************************************)
(* Bounds of the model.  Input graphs are all connected planar             *)
(* straight-line graphs with 2..MaxNodes nodes on the grid                 *)
(* (0..GridW-1) x (0..GridH-1), together with the regression graphs below. *)
(***************************************************************************)
GridW == 3
GridH == 3
MaxNodes == 4

None == <<>>

X(p) == p[1]
Y(p) == p[2]

(***************************************************************************)
(* Geometric primitives.                                                   *)
(***************************************************************************)
\* Vector.cross_product(v1, v2) on vectors given as pairs.
CrossProduct(v1, v2) == v1[1] * v2[2] - v1[2] * v2[1]

\* Vector.from_points(p1, p2) = p2 - p1.
FromPoints(p1, p2) == <<p2[1] - p1[1], p2[2] - p1[2]>>

\* Turn(start, intermediary, end): sign of cross(end - start, intermediary - start).
Turn(start, intermediary, end) ==
    LET direction == CrossProduct(FromPoints(start, end), FromPoints(start, intermediary))
    IN  IF direction < 0 THEN "left"
        ELSE IF direction > 0 THEN "right"
        ELSE "straight"

\* Point.__lt__: order of the coordinate tuples (x, y).
PointLess(a, b) == X(a) < X(b) \/ (X(a) = X(b) /\ Y(a) < Y(b))

\* The sweep key lambda node: (node.y, node.x).
YXLess(a, b) == Y(a) < Y(b) \/ (Y(a) = Y(b) /\ X(a) < X(b))

YXMin(S) == CHOOSE a \in S : \A b \in S : a = b \/ YXLess(a, b)
YXMax(S) == CHOOSE a \in S : \A b \in S : a = b \/ YXLess(b, a)

\* sorted(nodes, key=lambda node: (node.y, node.x)); the keys of distinct
\* points are distinct, so the result is unique.
RECURSIVE SortedNodes(_)
SortedNodes(S) ==
    IF S = {} THEN <<>>
    ELSE LET m == YXMin(S) IN <<m>> \o SortedNodes(S \ {m})

(***************************************************************************)
(* Polar angles.  atan2 is compared exactly: two directions d, e (d # 0,   *)
(* e # 0) are ordered by the half-plane they lie in and, inside one        *)
(* half-plane, by the sign of their cross product.                         *)
(***************************************************************************)
\* Point.polar_angle in (-pi, pi]: is angle(d) < angle(e)?
PolarAngleLess(d, e) ==
    LET neg(v) == v[2] < 0                    \* angle in (-pi, 0)
        isPi(v) == v[2] = 0 /\ v[1] < 0       \* angle = pi
    IN  IF neg(d) # neg(e) THEN neg(d)
        ELSE IF isPi(d) \/ isPi(e) THEN ~isPi(d) /\ isPi(e)
        ELSE CrossProduct(d, e) > 0

\* Point.nonnegative_polar_angle in [0, 2 pi): is angle(d) < angle(e)?
NonnegativePolarAngleLess(d, e) ==
    LET upper(v) == v[2] > 0 \/ (v[2] = 0 /\ v[1] >= 0)   \* angle in [0, pi)
    IN  IF upper(d) # upper(e) THEN upper(d)
        ELSE CrossProduct(d, e) > 0

(***************************************************************************)
(* Edges.                                                                  *)
(***************************************************************************)
First(e) == e[1]
Second(e) == e[2]

\* GraphEdge.other_node for a node of the edge.
OtherNode(e, v) == IF First(e) = v THEN Second(e) ELSE First(e)

\* Graph.edges_of.
EdgesOf(E, v) == {e \in E : First(e) = v \/ Second(e) = v}

\* Every sequence that lists the finite set S in an order compatible with
\* the strict order Less (a set of pairs <<a, b>>, a before b): what sorted()
\* can return on a set whose iteration order is not fixed (elements with
\* equal keys keep their iteration order).
RECURSIVE SortedSeqs(_, _)
SortedSeqs(S, Less) ==
    IF S = {} THEN {<<>>}
    ELSE UNION {{<<m>> \o t : t \in SortedSeqs(S \ {m}, Less)} :
                    m \in {a \in S : \A b \in S : <<b, a>> \notin Less}}

\* OrientedPlanarStraightLineGraph.inward_edges: ascending nonnegative polar
\* angle of the other endpoint seen from the node.
InwardEdges(E, v) ==
    LET inward_edges == {e \in EdgesOf(E, v) : Second(e) = v}
    IN  SortedSeqs(inward_edges,
                   {p \in inward_edges \X inward_edges :
                       NonnegativePolarAngleLess(FromPoints(v, OtherNode(p[1], v)),
                                                 FromPoints(v, OtherNode(p[2], v)))})

\* Mutant of OutwardEdges: ascending polar angle.
OutwardEdgesAscending(E, v) ==
    LET outward_edges == {e \in EdgesOf(E, v) : First(e) = v}
    IN  SortedSeqs(outward_edges,
                   {p \in outward_edges \X outward_edges :
                       PolarAngleLess(FromPoints(v, OtherNode(p[1], v)),
                                      FromPoints(v, OtherNode(p[2], v)))})

\* OrientedPlanarStraightLineGraph.outward_edges: ascending -polar_angle.
OutwardEdges(E, v) ==
    LET outward_edges == {e \in EdgesOf(E, v) : First(e) = v}
    IN  SortedSeqs(outward_edges,
                   {p \in outward_edges \X outward_edges :
                       PolarAngleLess(FromPoints(v, OtherNode(p[2], v)),
                                      FromPoints(v, OtherNode(p[1], v)))})

\* Mutant of UpwardOrientedEdge: the endpoints are compared as points, by
\* (x, y), and not by the key (y, x).
UpwardOrientedEdgeByPoint(e) ==
    LET lower_node == IF PointLess(Second(e), First(e)) THEN Second(e) ELSE First(e)
    IN  <<lower_node, OtherNode(e, lower_node)>>

\* upward_oriented_planar_straight_line_graph_edge.
UpwardOrientedEdge(e) ==
    LET lower_node == IF YXLess(Second(e), First(e)) THEN Second(e) ELSE First(e)
    IN  <<lower_node, OtherNode(e, lower_node)>>

\* OrientedPlanarStraightLineGraph.is_regular.
IsRegular(N, E) ==
    \A v \in N :
        /\ (v = YXMin(N) \/ {e \in E : Second(e) = v} # {})
        /\ (v = YXMax(N) \/ {e \in E : First(e) = v} # {})

(***************************************************************************)
(* Input graphs: validity of a planar straight-line graph.                 *)
(***************************************************************************)
OnSegment(p, a, b) ==
    /\ CrossProduct(FromPoints(a, b), FromPoints(a, p)) = 0
    /\ (IF X(a) <= X(b) THEN X(a) <= X(p) /\ X(p) <= X(b) ELSE X(b) <= X(p) /\ X(p) <= X(a))
    /\ (IF Y(a) <= Y(b) THEN Y(a) <= Y(p) /\ Y(p) <= Y(b) ELSE Y(b) <= Y(p) /\ Y(p) <= Y(a))

\* Two segments with four distinct endpoints cross in their interiors.
ProperCross(e, f) ==
    LET d1 == CrossProduct(FromPoints(e[1], e[2]), FromPoints(e[1], f[1]))
        d2 == CrossProduct(FromPoints(e[1], e[2]), FromPoints(e[1], f[2]))
        d3 == CrossProduct(FromPoints(f[1], f[2]), FromPoints(f[1], e[1]))
        d4 == CrossProduct(FromPoints(f[1], f[2]), FromPoints(f[1], e[2]))
    IN  /\ (d1 > 0 /\ d2 < 0) \/ (d1 < 0 /\ d2 > 0)
        /\ (d3 > 0 /\ d4 < 0) \/ (d3 < 0 /\ d4 > 0)

\* Segments e and f meet somewhere else than in one shared endpoint.
BadMeet(e, f) ==
    LET shared == {e[1], e[2]} \cap {f[1], f[2]}
    IN  IF Cardinality(shared) = 2 THEN TRUE
        ELSE IF Cardinality(shared) = 1
             THEN LET s == CHOOSE q \in shared : TRUE
                  IN  \/ OnSegment(OtherNode(e, s), f[1], f[2])
                      \/ OnSegment(OtherNode(f, s), e[1], e[2])
        ELSE \/ ProperCross(e, f)
             \/ OnSegment(f[1], e[1], e[2]) \/ OnSegment(f[2], e[1], e[2])
             \/ OnSegment(e[1], f[1], f[2]) \/ OnSegment(e[2], f[1], f[2])

\* The edge e meets every other edge of E only in a shared endpoint and
\* passes through no node of N.
EdgeIsPlanarIn(e, N, E) ==
    /\ \A f \in E : f = e \/ ~BadMeet(e, f)
    /\ \A v \in N : v \in {e[1], e[2]} \/ ~OnSegment(v, e[1], e[2])

IsPlanar(N, E) == \A e \in E : EdgeIsPlanarIn(e, N, E)

RECURSIVE Reach(_, _)
Reach(R, E) ==
    LET R2 == R \cup {Second(e) : e \in {f \in E : First(f) \in R}}
                 \cup {First(e) : e \in {f \in E : Second(f) \in R}}
    IN  IF R2 = R THEN R ELSE Reach(R2, E)

IsConnected(N, E) == N = {} \/ Reach({CHOOSE v \in N : TRUE}, E) = N

GridPoints == (0 .. GridW - 1) \X (0 .. GridH - 1)

\* Undirected segments between nodes of S, given from the smaller to the
\* larger coordinate tuple (not always the upward direction).
Segments(S) == {e \in S \X S : PointLess(e[1], e[2])}

GridGraphs ==
    UNION {{[nodes |-> S, edges |-> E] :
                E \in {F \in SUBSET Segments(S) : IsConnected(S, F) /\ IsPlanar(S, F)}} :
           S \in {T \in SUBSET GridPoints : Cardinality(T) >= 2 /\ Cardinality(T) <= MaxNodes}}


(***************************************************************************)
(* Regression inputs beyond the grid bounds.                               *)
(***************************************************************************)
\* A tree whose bottom-up regularizing edge (0,0)->(2,1) crosses the input
\* edge (1,0)-(1,1) in its interior.
CrossingGraph ==
    [nodes |-> {<<0, 0>>, <<1, 0>>, <<1, 1>>, <<2, 1>>, <<0, 2>>},
     edges |-> {<<<<0, 0>>, <<1, 0>>>>, <<<<0, 0>>, <<0, 2>>>>,
                <<<<1, 0>>, <<1, 1>>>>, <<<<0, 2>>, <<2, 1>>>>}]

\* The graph of test_chain1, adapted from Preparata and Shamos: 13 nodes and
\* the edges e1 .. e16, each given as (first, second).
PreparataShamosGraph ==
    [nodes |-> {<<1, 1>>, <<7, 1>>, <<16, 1>>, <<4, 2>>, <<13, 3>>,
               <<5, 4>>, <<4, 6>>, <<18, 7>>, <<15, 8>>, <<10, 9>>,
               <<1, 10>>, <<14, 11>>, <<7, 12>>},
     edges |-> {<<<<1, 1>>, <<7, 1>>>>, <<<<7, 1>>, <<13, 3>>>>,
               <<<<16, 1>>, <<13, 3>>>>, <<<<5, 4>>, <<4, 6>>>>,
               <<<<16, 1>>, <<18, 7>>>>, <<<<4, 2>>, <<15, 8>>>>,
               <<<<7, 1>>, <<15, 8>>>>, <<<<5, 4>>, <<10, 9>>>>,
               <<<<15, 8>>, <<10, 9>>>>, <<<<1, 1>>, <<1, 10>>>>,
               <<<<4, 2>>, <<1, 10>>>>, <<<<4, 6>>, <<1, 10>>>>,
               <<<<15, 8>>, <<14, 11>>>>, <<<<18, 7>>, <<14, 11>>>>,
               <<<<4, 6>>, <<7, 12>>>>, <<<<14, 11>>, <<7, 12>>>>}]

RegressionGraphs == {CrossingGraph, PreparataShamosGraph}

InputGraphs == GridGraphs \cup RegressionGraphs

\* Query points of a graph: one column beyond the nodes on either side, and
\* every ordinate between the lowest and the highest node.
QueryPoints(N) ==
    LET xs == {X(v) : v \in N}
        ys == {Y(v) : v \in N}
        lo(S) == CHOOSE a \in S : \A b \in S : a <= b
        hi(S) == CHOOSE a \in S : \A b \in S : a >= b
    IN  (lo(xs) - 1 .. hi(xs) + 1) \X (lo(ys) .. hi(ys))

(***************************************************************************)
(* Sequence helpers (Python list operations, indices counted from 0).      *)
(***************************************************************************)
\* list.index(x): the first position of x, or -1 for ValueError.
RECURSIVE IndexFrom(_, _, _)
IndexFrom(s, x, k) ==
    IF k >= Len(s) THEN -1
    ELSE IF s[k + 1] = x THEN k
    ELSE IndexFrom(s, x, k + 1)

Index(s, x) == IndexFrom(s, x, 0)

Reversed(s) == [k \in 1 .. Len(s) |-> s[Len(s) + 1 - k]]

RECURSIVE SumWeights(_, _)
SumWeights(S, w) ==
    IF S = {} THEN 0
    ELSE LET e == CHOOSE f \in S : TRUE IN w[e] + SumWeights(S \ {e}, w)

\* All sequences whose k-th element is drawn from the k-th set of sets.
RECURSIVE SeqProduct(_)
SeqProduct(sets) ==
    IF sets = <<>> THEN {<<>>}
    ELSE {<<h>> \o t : h \in Head(sets), t \in SeqProduct(Tail(sets))}

(***************************************************************************)
(* Regularization helpers.                                                 *)
(***************************************************************************)
\* outward_edges_insertion_index_in_swept_edges_by_current_node and its top-down
\* twin inward_edges_insertion_index_in_swept_edges_by_current_node (same body).
RECURSIVE InsertionIndexByCurrentNodeFrom(_, _, _)
InsertionIndexByCurrentNodeFrom(current_node, swept_edges, k) ==
    IF k >= Len(swept_edges) THEN Len(swept_edges)
    ELSE LET edge == swept_edges[k + 1]
             turn == Turn(First(edge), Second(edge), current_node)
         IN  IF turn = "left" \/ (turn = "straight" /\ PointLess(current_node, First(edge)))
             THEN k
             ELSE InsertionIndexByCurrentNodeFrom(current_node, swept_edges, k + 1)

InsertionIndexByCurrentNode(current_node, swept_edges) ==
    InsertionIndexByCurrentNodeFrom(current_node, swept_edges, 0)

\* outward_edges_insertion_index_in_swept_edges (bottom-up, with the node's
\* inward edges) and inward_edges_insertion_index_in_swept_edges (top-down,
\* with its outward edges): the position of the first of the node's own
\* edges in swept_edges, else the position found from the node.
InsertionIndexInSweptEdges(node, swept_edges, own_edges) ==
    IF own_edges # <<>> /\ Index(swept_edges, own_edges[1]) >= 0
    THEN Index(swept_edges, own_edges[1])
    ELSE InsertionIndexByCurrentNode(node, swept_edges)

\* delete_edges_from_swept_edges: del swept_edges[delete_at : delete_at+len(edges)].
DeleteEdgesFromSweptEdges(es, swept_edges, delete_at) ==
    SubSeq(swept_edges, 1, delete_at)
        \o SubSeq(swept_edges, delete_at + Len(es) + 1, Len(swept_edges))

\* insert_edges_to_swept_edges: swept_edges[insert_at : insert_at] = edges.
InsertEdgesToSweptEdges(es, swept_edges, insert_at) ==
    SubSeq(swept_edges, 1, insert_at) \o es
        \o SubSeq(swept_edges, insert_at + 1, Len(swept_edges))

\* The neighbours of the insertion position: (left_edge, right_edge), None
\* where there is none.
LeftEdge(swept_edges, at) == IF at # 0 THEN swept_edges[at] ELSE None
RightEdge(swept_edges, at) == IF at # Len(swept_edges) THEN swept_edges[at + 1] ELSE None

\* uppermost_lower_node; None stands for the AttributeError raised when both
\* edges are missing.  max() returns its first argument on equal keys.
UppermostLowerNode(left_edge, right_edge) ==
    IF left_edge = None
    THEN (IF right_edge = None THEN None ELSE First(right_edge))
    ELSE IF right_edge = None THEN First(left_edge)
    ELSE IF YXLess(First(left_edge), First(right_edge))
         THEN First(right_edge) ELSE First(left_edge)

\* lowermost_upper_node; None as above.
LowermostUpperNode(left_edge, right_edge) ==
    IF left_edge = None
    THEN (IF right_edge = None THEN None ELSE Second(right_edge))
    ELSE IF right_edge = None THEN Second(left_edge)
    ELSE IF YXLess(Second(right_edge), Second(left_edge))
         THEN Second(right_edge) ELSE Second(left_edge)

(***************************************************************************)
(* State.                                                                  *)
(***************************************************************************)
VARIABLES
    pslg,       \* the PlanarStraightLineGraph given to chain()
    pc,         \* the place chain() has reached
    nodes,      \* oriented_planar_straight_line_graph.nodes
    edges,      \* oriented_planar_straight_line_graph.edges
    weight,     \* edge.weight of every edge of the oriented graph
    order,      \* nodes_bottom_to_top
    i,          \* number of nodes the running loop has processed
    swept,      \* swept_edges of the running regularization pass
    chains,     \* monotone_chains
    node,       \* construct_monotone_chains: the current node
    startEdge,  \* construct_monotone_chains: starting_edge
    tree,       \* chain_bin_tree
    point,      \* the query point
    chainNode,  \* search: chain_node
    searchPath, \* search: search_path
    result,     \* search: the returned pair of chains
    yielded,    \* what chain() has yielded so far
    raised,     \* the function an exception was raised in, "none" before
    given,      \* the class of the live graph, and whether it was constructed empty
    graph,      \* the nodes and edges of the live graph object
    call        \* the last method called on the live graph and its outcome

\* The state of chain() and the state of a graph object under its methods.
chainVars == <<pslg, pc, nodes, edges, weight, order, i, swept, chains, node,
               startEdge, tree, point, chainNode, searchPath, result, yielded, raised>>
graphVars == <<given, graph, call>>

vars == <<chainVars, graphVars>>

NoNode == -1

GraphCopy(N, E, w) == [kind |-> "graph", nodes |-> N, edges |-> E, weight |-> w]

Init ==
    /\ pslg \in InputGraphs
    /\ pc = "nodes"
    /\ nodes = {}
    /\ edges = {}
    /\ weight = <<>>
    /\ order = <<>>
    /\ i = 0
    /\ swept = <<>>
    /\ chains = <<>>
    /\ node = None
    /\ startEdge = None
    /\ tree = None
    /\ point = None
    /\ chainNode = NoNode
    /\ searchPath = <<>>
    /\ result = None
    /\ yielded = <<>>
    /\ raised = "none"
    /\ given = None
    /\ graph = None
    /\ call = None

\* An exception leaves chain(): nothing more is yielded.
Raise(where) == pc' = "error" /\ raised' = where

(***************************************************************************)
(* chain(): up to the regularization.                                      *)
(***************************************************************************)
\* nodes_bottom_to_top = sorted(...); yield nodes_bottom_to_top
ChainSortNodes ==
    /\ pc = "nodes"
    /\ order' = SortedNodes(pslg.nodes)
    /\ yielded' = Append(yielded, [kind |-> "nodes", value |-> order'])
    /\ pc' = "orient"
    /\ UNCHANGED <<graphVars, pslg, raised, nodes, edges, weight, i, swept, chains, node, startEdge,
                   tree, point, chainNode, searchPath, result>>

\* OrientedPlanarStraightLineGraph.from_planar_straight_line_graph; yield deepcopy
ChainOrient ==
    /\ pc = "orient"
    /\ nodes' = pslg.nodes
    /\ edges' = {UpwardOrientedEdge(e) : e \in pslg.edges}
    /\ weight' = [e \in edges' |-> 0]
    /\ yielded' = Append(yielded, GraphCopy(nodes', edges', weight'))
    /\ pc' = "inward"
    /\ UNCHANGED <<graphVars, pslg, raised, order, i, swept, chains, node, startEdge,
                   tree, point, chainNode, searchPath, result>>

\* yield [inward_edges(node) for node in nodes_bottom_to_top]
ChainInwardEdges ==
    /\ pc = "inward"
    /\ \E lists \in SeqProduct([k \in 1 .. Len(order) |-> InwardEdges(edges, order[k])]) :
           yielded' = Append(yielded, [kind |-> "lists", value |-> lists])
    /\ pc' = "outward"
    /\ UNCHANGED <<graphVars, pslg, raised, nodes, edges, weight, order, i, swept, chains, node,
                   startEdge, tree, point, chainNode, searchPath, result>>

\* yield [outward_edges(node) for node in nodes_bottom_to_top]
ChainOutwardEdges ==
    /\ pc = "outward"
    /\ \E lists \in SeqProduct([k \in 1 .. Len(order) |-> OutwardEdges(edges, order[k])]) :
           yielded' = Append(yielded, [kind |-> "lists", value |-> lists])
    /\ pc' = "regularize"
    /\ UNCHANGED <<graphVars, pslg, raised, nodes, edges, weight, order, i, swept, chains, node,
                   startEdge, tree, point, chainNode, searchPath, result>>

(***************************************************************************)
(* OrientedPlanarStraightLineGraph.regularize, one loop iteration per step.*)
(***************************************************************************)
\* if not is_regular(): (skipped) ... yield deepcopy
ChainSkipRegularize ==
    /\ pc = "regularize"
    /\ IsRegular(nodes, edges)
    /\ yielded' = Append(yielded, GraphCopy(nodes, edges, weight))
    /\ pc' = "weights"
    /\ UNCHANGED <<graphVars, pslg, raised, nodes, edges, weight, order, i, swept, chains, node,
                   startEdge, tree, point, chainNode, searchPath, result>>

\* regularize() is entered: by chain() on a graph that is not regular, or
\* by a caller of the method on any oriented graph.
Regularize ==
    /\ pc = "regularize"
    /\ i' = 0
    /\ swept' = <<>>
    /\ pc' = "bottom_to_top"
    /\ UNCHANGED <<graphVars, pslg, raised, nodes, edges, weight, order, chains, node,
                   startEdge, tree, point, chainNode, searchPath, result, yielded>>

\* Mutant of RegularizingInwardEdge: the endpoints of the new edge swapped.
RegularizingInwardEdgeSwapped(current_node, swept_edges, at) ==
    LET lower_node == UppermostLowerNode(LeftEdge(swept_edges, at),
                                         RightEdge(swept_edges, at))
    IN  IF lower_node = None THEN None ELSE <<current_node, lower_node>>

\* add_regularizing_inward_edge: the edge it adds, None when it raises.
RegularizingInwardEdge(current_node, swept_edges, at) ==
    LET lower_node == UppermostLowerNode(LeftEdge(swept_edges, at),
                                         RightEdge(swept_edges, at))
    IN  IF lower_node = None THEN None ELSE <<lower_node, current_node>>

\* Mutant of RegularizingOutwardEdge: the endpoints of the new edge swapped.
RegularizingOutwardEdgeSwapped(current_node, swept_edges, at) ==
    LET upper_node == LowermostUpperNode(LeftEdge(swept_edges, at),
                                         RightEdge(swept_edges, at))
    IN  IF upper_node = None THEN None ELSE <<upper_node, current_node>>

\* add_regularizing_outward_edge: the edge it adds, None when it raises.
RegularizingOutwardEdge(current_node, swept_edges, at) ==
    LET upper_node == LowermostUpperNode(LeftEdge(swept_edges, at),
                                         RightEdge(swept_edges, at))
    IN  IF upper_node = None THEN None ELSE <<current_node, upper_node>>

\* OrientedGraph.add_edge of a new edge of weight 0 (both endpoints are nodes).
WeightWithEdge(w, e) == [f \in DOMAIN w \cup {e} |-> IF f \in DOMAIN w THEN w[f] ELSE 0]

\* The body of the loop of regularize_bottom_to_top for nodes[i].
RegularizeBottomToTopStep ==
    /\ pc = "bottom_to_top"
    /\ i < Len(order)
    /\ LET current == order[i + 1] IN
       \E inward_edges \in InwardEdges(edges, current),
          outward_edges \in OutwardEdges(edges, current) :
          LET at == InsertionIndexInSweptEdges(current, swept, inward_edges)
              adds == i # 0 /\ inward_edges = <<>>
              new_edge == RegularizingInwardEdge(current, swept, at)
          IN  IF adds /\ new_edge = None
              THEN /\ Raise("add_regularizing_inward_edge")
                   /\ UNCHANGED <<edges, weight, i, swept>>
              ELSE /\ raised' = raised
                   /\ edges' = IF adds THEN edges \cup {new_edge} ELSE edges
                   /\ weight' = IF adds THEN WeightWithEdge(weight, new_edge) ELSE weight
                   /\ IF i + 1 = Len(order)
                      THEN pc' = "top_to_bottom" /\ i' = 0 /\ swept' = <<>>
                      ELSE /\ pc' = pc
                           /\ i' = i + 1
                           /\ swept' = InsertEdgesToSweptEdges(outward_edges,
                                           DeleteEdgesFromSweptEdges(inward_edges, swept, at), at)
    /\ UNCHANGED <<graphVars, pslg, nodes, order, chains, node, startEdge, tree, point,
                   chainNode, searchPath, result, yielded>>

\* The body of the loop of regularize_top_to_bottom for reversed(nodes)[i];
\* after the last node regularize() returns and chain() yields a deepcopy.
RegularizeTopToBottomStep ==
    /\ pc = "top_to_bottom"
    /\ i < Len(order)
    /\ LET current == Reversed(order)[i + 1] IN
       \E inward_edges \in InwardEdges(edges, current),
          outward_edges \in OutwardEdges(edges, current) :
          LET at == InsertionIndexInSweptEdges(current, swept, outward_edges)
              adds == i # 0 /\ outward_edges = <<>>
              new_edge == RegularizingOutwardEdge(current, swept, at)
          IN  IF adds /\ new_edge = None
              THEN /\ Raise("add_regularizing_outward_edge")
                   /\ UNCHANGED <<edges, weight, i, swept, yielded>>
              ELSE /\ raised' = raised
                   /\ edges' = IF adds THEN edges \cup {new_edge} ELSE edges
                   /\ weight' = IF adds THEN WeightWithEdge(weight, new_edge) ELSE weight
                   /\ IF i + 1 = Len(order)
                      THEN /\ pc' = "weights" /\ i' = 0 /\ swept' = <<>>
                           /\ yielded' = Append(yielded, GraphCopy(nodes, edges', weight'))
                      ELSE /\ pc' = pc
                           /\ i' = i + 1
                           /\ swept' = InsertEdgesToSweptEdges(inward_edges,
                                           DeleteEdgesFromSweptEdges(outward_edges, swept, at), at)
                           /\ UNCHANGED yielded
    /\ UNCHANGED <<graphVars, pslg, nodes, order, chains, node, startEdge, tree, point,
                   chainNode, searchPath, result>>

(***************************************************************************)
(* chain(): unit weights and the two balancing passes.                     *)
(***************************************************************************)
\* for edge in edges: edge.weight = 1; yield deepcopy
ChainSetWeights ==
    /\ pc = "weights"
    /\ weight' = [e \in edges |-> 1]
    /\ yielded' = Append(yielded, GraphCopy(nodes, edges, weight'))
    /\ pc' = "balance_up"
    /\ i' = 0
    /\ UNCHANGED <<graphVars, pslg, raised, nodes, edges, order, swept, chains, node, startEdge,
                   tree, point, chainNode, searchPath, result>>

\* Mutant of BalancedWeight: the whole weight of `from` is added, not the
\* difference.
BalancedWeightNoDifference(w, from, to) ==
    LET weight_from == SumWeights({from[k] : k \in 1 .. Len(from)}, w)
        weight_to == SumWeights({to[k] : k \in 1 .. Len(to)}, w)
    IN  IF to # <<>> /\ weight_from > weight_to
        THEN [w EXCEPT ![to[1]] = @ + weight_from]
        ELSE w

\* The weight the balancing of a node adds to the first edge of `to` when the
\* node has such edges and the weight of `from` exceeds theirs.
BalancedWeight(w, from, to) ==
    LET weight_from == SumWeights({from[k] : k \in 1 .. Len(from)}, w)
        weight_to == SumWeights({to[k] : k \in 1 .. Len(to)}, w)
    IN  IF to # <<>> /\ weight_from > weight_to
        THEN [w EXCEPT ![to[1]] = @ + weight_from - weight_to]
        ELSE w

\* The body of the loop of balance_bottom_to_top; yield deepcopy after the
\* last node.
BalanceBottomToTopStep ==
    /\ pc = "balance_up"
    /\ IF i < Len(order)
       THEN /\ \E inward_edges \in InwardEdges(edges, order[i + 1]),
                  outward_edges \in OutwardEdges(edges, order[i + 1]) :
                  weight' = BalancedWeight(weight, inward_edges, outward_edges)
            /\ i' = i + 1
            /\ UNCHANGED <<pc, yielded>>
       ELSE /\ yielded' = Append(yielded, GraphCopy(nodes, edges, weight))
            /\ pc' = "balance_down"
            /\ i' = 0
            /\ UNCHANGED weight
    /\ UNCHANGED <<graphVars, pslg, raised, nodes, edges, order, swept, chains, node, startEdge,
                   tree, point, chainNode, searchPath, result>>

\* The body of the loop of balance_top_to_bottom; yield deepcopy after the
\* last node.
BalanceTopToBottomStep ==
    /\ pc = "balance_down"
    /\ IF i < Len(order)
       THEN /\ \E inward_edges \in InwardEdges(edges, Reversed(order)[i + 1]),
                  outward_edges \in OutwardEdges(edges, Reversed(order)[i + 1]) :
                  weight' = BalancedWeight(weight, outward_edges, inward_edges)
            /\ i' = i + 1
            /\ UNCHANGED <<pc, yielded>>
       ELSE /\ yielded' = Append(yielded, GraphCopy(nodes, edges, weight))
            /\ pc' = "chains"
            /\ i' = 0
            /\ UNCHANGED weight
    /\ UNCHANGED <<graphVars, pslg, raised, nodes, edges, order, swept, chains, node, startEdge,
                   tree, point, chainNode, searchPath, result>>

(***************************************************************************)
(* construct_monotone_chains.                                              *)
(***************************************************************************)
\* Mutant of LeftmostAvailable: an edge counts as available from weight 2.
RECURSIVE LeftmostAvailableAboveOne(_, _)
LeftmostAvailableAboveOne(outward_edges, w) ==
    IF outward_edges = <<>> THEN None
    ELSE IF w[Head(outward_edges)] > 1 THEN Head(outward_edges)
    ELSE LeftmostAvailableAboveOne(Tail(outward_edges), w)

\* leftmost_available_outward_edge on one sorted list of outward edges.
RECURSIVE LeftmostAvailable(_, _)
LeftmostAvailable(outward_edges, w) ==
    IF outward_edges = <<>> THEN None
    ELSE IF w[Head(outward_edges)] > 0 THEN Head(outward_edges)
    ELSE LeftmostAvailable(Tail(outward_edges), w)

\* leftmost_available_outward_edge: the edges it can return (None included).
LeftmostAvailableOutwardEdge(v, E, w) ==
    {LeftmostAvailable(outward_edges, w) : outward_edges \in OutwardEdges(E, v)}

\* The test of the outer while loop: a new chain is started with the
\* starting edge, or the chains are complete and chain() yields them.
ChainStart ==
    /\ pc = "chains"
    /\ node = None
    /\ \E starting_edge \in LeftmostAvailableOutwardEdge(order[1], edges, weight) :
          IF starting_edge # None
          THEN /\ chains' = Append(chains, <<starting_edge>>)
               /\ startEdge' = starting_edge
               /\ node' = Second(starting_edge)
               /\ UNCHANGED <<pc, yielded>>
          ELSE /\ yielded' = Append(yielded, [kind |-> "chains", value |-> chains])
               /\ pc' = "tree"
               /\ UNCHANGED <<chains, startEdge, node>>
    /\ UNCHANGED <<graphVars, pslg, raised, nodes, edges, weight, order, i, swept, tree, point,
                   chainNode, searchPath, result>>

\* Mutant of AtLastNode: the loop stops at nodes[-2].
AtLastButOneNode(v, ns) == v = ns[Len(ns) - 1]

\* The stop test of the inner while loop: `node is nodes[-1]`.
AtLastNode(v, ns) == v = ns[Len(ns)]

\* Mutant of ChainFollow: the weight of the followed edge is not decremented.
ChainFollowNoDecrement ==
    /\ pc = "chains"
    /\ node # None
    /\ ~AtLastNode(node, order)
    /\ \E edge \in LeftmostAvailableOutwardEdge(node, edges, weight) :
          IF edge = None
          THEN /\ Raise("construct_monotone_chains")
               /\ UNCHANGED <<chains, weight, node>>
          ELSE /\ raised' = raised
               /\ chains' = [chains EXCEPT ![Len(chains)] = Append(@, edge)]
               /\ weight' = weight
               /\ node' = Second(edge)
               /\ pc' = pc
    /\ UNCHANGED <<graphVars, pslg, nodes, edges, order, i, swept, startEdge, tree, point,
                   chainNode, searchPath, result, yielded>>

\* The body of the inner while loop: the chain follows the leftmost
\* available outward edge of the current node; edge.weight of None raises.
ChainFollow ==
    /\ pc = "chains"
    /\ node # None
    /\ ~AtLastNode(node, order)
    /\ \E edge \in LeftmostAvailableOutwardEdge(node, edges, weight) :
          IF edge = None
          THEN /\ Raise("construct_monotone_chains")
               /\ UNCHANGED <<chains, weight, node>>
          ELSE /\ raised' = raised
               /\ chains' = [chains EXCEPT ![Len(chains)] = Append(@, edge)]
               /\ weight' = [weight EXCEPT ![edge] = @ - 1]
               /\ node' = Second(edge)
               /\ pc' = pc
    /\ UNCHANGED <<graphVars, pslg, nodes, edges, order, i, swept, startEdge, tree, point,
                   chainNode, searchPath, result, yielded>>

\* Mutant of ChainEnd: the starting edge gives up two units of weight.
ChainEndTakesTwo ==
    /\ pc = "chains"
    /\ node # None
    /\ AtLastNode(node, order)
    /\ weight' = [weight EXCEPT ![startEdge] = @ - 2]
    /\ node' = None
    /\ startEdge' = None
    /\ UNCHANGED <<graphVars, pslg, raised, pc, nodes, edges, order, i, swept, chains, tree, point,
                   chainNode, searchPath, result, yielded>>

\* The inner loop has reached nodes[-1]: starting_edge.weight -= 1.
ChainEnd ==
    /\ pc = "chains"
    /\ node # None
    /\ AtLastNode(node, order)
    /\ weight' = [weight EXCEPT ![startEdge] = @ - 1]
    /\ node' = None
    /\ startEdge' = None
    /\ UNCHANGED <<graphVars, pslg, raised, pc, nodes, edges, order, i, swept, chains, tree, point,
                   chainNode, searchPath, result, yielded>>

(***************************************************************************)
(* The chains search tree.  A tree node is named by the position (from 0)  *)
(* of its data in the iterable; NoNode stands for None.                    *)
(***************************************************************************)
\* BinTree._from_iterable(iterable, left, right): the node it returns.
FromIterableRoot(left, right) == IF left > right THEN NoNode ELSE (left + right) \div 2

\* BinTreeNode.set_height at the root of _from_iterable(iterable, left, right)
\* (0 for no node: an absent child counts 0 in set_height).
RECURSIVE FromIterableHeight(_, _)
FromIterableHeight(left, right) ==
    IF left >= right THEN 0
    ELSE LET mid == (left + right) \div 2
             left_height == FromIterableHeight(left, mid - 1)
             right_height == FromIterableHeight(mid + 1, right)
         IN  (IF left_height >= right_height THEN left_height ELSE right_height) + 1

\* BinTree._from_iterable: the nodes of the subtree built from left..right.
RECURSIVE FromIterable(_, _)
FromIterable(left, right) ==
    IF left > right THEN {}
    ELSE LET mid == (left + right) \div 2
         IN  {[id |-> mid,
               left |-> FromIterableRoot(left, mid - 1),
               right |-> FromIterableRoot(mid + 1, right),
               height |-> FromIterableHeight(left, right)]}
                 \cup FromIterable(left, mid - 1) \cup FromIterable(mid + 1, right)

\* BinTreeNode.traverse_inorder from node v, over child maps l and r.
RECURSIVE TraverseInorder(_, _, _)
TraverseInorder(l, r, v) ==
    IF v = NoNode THEN <<>>
    ELSE TraverseInorder(l, r, l[v]) \o <<v>> \o TraverseInorder(l, r, r[v])

\* Mutant of ThreadedFromIterable: the first and the last node keep their
\* wrapped threads whatever `circular` is.
ThreadedFromIterableAlwaysCircular(n, circular) ==
    LET built == FromIterable(0, n - 1)
        rec(v) == CHOOSE t \in built : t.id = v
        l == [v \in 0 .. n - 1 |-> rec(v).left]
        r == [v \in 0 .. n - 1 |-> rec(v).right]
        root == FromIterableRoot(0, n - 1)
        inorder == TraverseInorder(l, r, root)
        pos(v) == CHOOSE k \in 1 .. n : inorder[k] = v
        before(v) == inorder[((pos(v) - 2) % n) + 1]
        after(v) == inorder[(pos(v) % n) + 1]
    IN  [root |-> root,
         left |-> l,
         right |-> r,
         height |-> [v \in 0 .. n - 1 |-> rec(v).height],
         prev |-> [v \in 0 .. n - 1 |-> IF l[v] # NoNode THEN l[v] ELSE before(v)],
         next |-> [v \in 0 .. n - 1 |-> IF r[v] # NoNode THEN r[v] ELSE after(v)]]

\* ThreadedBinTree.from_iterable(iterable, circular) for an iterable of n items.
ThreadedFromIterable(n, circular) ==
    LET built == FromIterable(0, n - 1)
        rec(v) == CHOOSE t \in built : t.id = v
        l == [v \in 0 .. n - 1 |-> rec(v).left]
        r == [v \in 0 .. n - 1 |-> rec(v).right]
        root == FromIterableRoot(0, n - 1)
        inorder == TraverseInorder(l, r, root)
        pos(v) == CHOOSE k \in 1 .. n : inorder[k] = v
        \* nodes[i-1] with Python's negative index, nodes[(i+1) % len(nodes)]
        before(v) == inorder[((pos(v) - 2) % n) + 1]
        after(v) == inorder[(pos(v) % n) + 1]
        prev == [v \in 0 .. n - 1 |-> IF l[v] # NoNode THEN l[v] ELSE before(v)]
        next == [v \in 0 .. n - 1 |-> IF r[v] # NoNode THEN r[v] ELSE after(v)]
    IN  [root |-> root,
         left |-> l,
         right |-> r,
         height |-> [v \in 0 .. n - 1 |-> rec(v).height],
         prev |-> IF ~circular /\ n > 0
                  THEN [prev EXCEPT ![inorder[1]] = NoNode] ELSE prev,
         next |-> IF ~circular /\ n > 0
                  THEN [next EXCEPT ![inorder[n]] = NoNode] ELSE next]

\* BinTreeNode.is_leaf.
IsLeaf(t, v) == t.left[v] = NoNode /\ t.right[v] = NoNode

\* Mutant of ChainBuildTree: the tree is built but not yielded.
ChainBuildTreeNoYield ==
    /\ pc = "tree"
    /\ tree' = ThreadedFromIterable(Len(chains), TRUE)
    /\ yielded' = yielded
    /\ pc' = "search"
    /\ UNCHANGED <<graphVars, pslg, raised, nodes, edges, weight, order, i, swept, chains, node,
                   startEdge, point, chainNode, searchPath, result>>

\* chain_bin_tree = ChainsThreadedBinTree.from_iterable(monotone_chains); yield
ChainBuildTree ==
    /\ pc = "tree"
    /\ tree' = ThreadedFromIterable(Len(chains), TRUE)
    /\ yielded' = Append(yielded, [kind |-> "tree", value |-> tree'])
    /\ pc' = "search"
    /\ UNCHANGED <<graphVars, pslg, raised, nodes, edges, weight, order, i, swept, chains, node,
                   startEdge, point, chainNode, searchPath, result>>

(***************************************************************************)
(* search.                                                                 *)
(***************************************************************************)
\* Mutant of ChainTurn: the turn is taken at the first edge of the chain,
\* whether or not it spans the point.
ChainTurnAtFirstEdge(chain, p) ==
    IF chain = <<>> THEN "none"
    ELSE Turn(First(Head(chain)), Second(Head(chain)), p)

\* ChainsThreadedBinTreeNode.turn; "none" when the loop ends without return.
RECURSIVE ChainTurn(_, _)
ChainTurn(chain, p) ==
    IF chain = <<>> THEN "none"
    ELSE LET edge == Head(chain) IN
         IF Y(First(edge)) = Y(p) /\ Y(p) = Y(Second(edge))
         THEN (IF X(p) < X(First(edge)) THEN "left"
               ELSE IF X(p) > X(Second(edge)) THEN "right"
               ELSE "straight")
         ELSE IF Y(First(edge)) <= Y(p) /\ Y(p) <= Y(Second(edge))
         THEN Turn(First(edge), Second(edge), p)
         ELSE ChainTurn(Tail(chain), p)

\* `chain_node is monotone_chains[k]`: a tree node is never the list object
\* that is its data.
NodeIsChain(chain_node, k) == FALSE

\* search() is entered with the query point: chain_node = chain_bin_tree.root.
SearchStart ==
    /\ pc = "search"
    /\ point' \in QueryPoints(nodes)
    /\ chainNode' = tree.root
    /\ searchPath' = <<>>
    /\ pc' = "descend"
    /\ UNCHANGED <<graphVars, pslg, raised, nodes, edges, weight, order, i, swept, chains, node,
                   startEdge, tree, result, yielded>>

\* `chain_node.is_leaf` on None raises AttributeError.
SearchRaise ==
    /\ pc = "descend"
    /\ chainNode = NoNode
    /\ Raise("search")
    /\ UNCHANGED <<graphVars, pslg, nodes, edges, weight, order, i, swept, chains, node,
                   startEdge, tree, point, chainNode, searchPath, result, yielded>>

Return(path, pair) ==
    /\ searchPath' = path
    /\ result' = pair
    /\ yielded' = Append(yielded, [kind |-> "result", value |-> <<path, pair>>])
    /\ pc' = "done"
    /\ UNCHANGED <<chainNode, raised>>

\* The body of the while loop of search, at a node that is not a leaf.
SearchDescend ==
    /\ pc = "descend"
    /\ chainNode # NoNode
    /\ ~IsLeaf(tree, chainNode)
    /\ LET turn == ChainTurn(chains[chainNode + 1], point) IN
       IF turn = "straight"
       THEN Return(searchPath, <<chainNode, chainNode>>)
       ELSE IF turn = "left"
       THEN IF NodeIsChain(chainNode, 0)
            THEN Return(searchPath, <<NoNode, chainNode>>)
            ELSE /\ searchPath' = Append(searchPath, "left")
                 /\ chainNode' = tree.left[chainNode]
                 /\ UNCHANGED <<pc, result, yielded, raised>>
       ELSE IF NodeIsChain(chainNode, Len(chains) - 1)
            THEN Return(searchPath, <<chainNode, NoNode>>)
            ELSE /\ searchPath' = Append(searchPath, "right")
                 /\ chainNode' = tree.right[chainNode]
                 /\ UNCHANGED <<pc, result, yielded, raised>>
    /\ UNCHANGED <<graphVars, pslg, nodes, edges, weight, order, i, swept, chains, node,
                   startEdge, tree, point>>

\* The end of search, at a leaf; `.chain` of a None thread raises.
SearchLeaf ==
    /\ pc = "descend"
    /\ chainNode # NoNode
    /\ IsLeaf(tree, chainNode)
    /\ LET turn == ChainTurn(chains[chainNode + 1], point) IN
       IF turn = "left"
       THEN IF tree.prev[chainNode] = NoNode
            THEN /\ Raise("search")
                 /\ searchPath' = Append(searchPath, "prev")
                 /\ UNCHANGED <<chainNode, result, yielded>>
            ELSE Return(Append(searchPath, "prev"), <<tree.prev[chainNode], chainNode>>)
       ELSE IF turn = "right"
       THEN IF tree.next[chainNode] = NoNode
            THEN /\ Raise("search")
                 /\ searchPath' = Append(searchPath, "next")
                 /\ UNCHANGED <<chainNode, result, yielded>>
            ELSE Return(Append(searchPath, "next"), <<chainNode, tree.next[chainNode]>>)
       ELSE Return(searchPath, <<chainNode, chainNode>>)
    /\ UNCHANGED <<graphVars, pslg, nodes, edges, weight, order, i, swept, chains, node,
                   startEdge, tree, point>>

Next ==
    \/ ChainSortNodes
    \/ ChainOrient
    \/ ChainInwardEdges
    \/ ChainOutwardEdges
    \/ ChainSkipRegularize
    \/ Regularize
    \/ RegularizeBottomToTopStep
    \/ RegularizeTopToBottomStep
    \/ ChainSetWeights
    \/ BalanceBottomToTopStep
    \/ BalanceTopToBottomStep
    \/ ChainStart
    \/ ChainFollow
    \/ ChainEnd
    \/ ChainBuildTree
    \/ SearchStart
    \/ SearchRaise
    \/ SearchDescend
    \/ SearchLeaf

Spec == Init /\ [][Next]_vars

-----------------------------------------------------------------------------
\* Properties of the chain method.

\* The input of chain(): connected, planar, at least two nodes.
InputIsValid ==
    /\ Cardinality(pslg.nodes) >= 2
    /\ IsConnected(pslg.nodes, pslg.edges)
    /\ IsPlanar(pslg.nodes, pslg.edges)

\* The edges of the input, oriented upward.
OrientedInput == {UpwardOrientedEdge(e) : e \in pslg.edges}

\* The edges regularization has added so far.
AddedEdges == edges \ OrientedInput

\* regularize() has returned (or was skipped on a regular graph).
Regularized == Len(yielded) >= 5

\* balance_top_to_bottom() has returned.
Balanced == Len(yielded) >= 8

\* construct_monotone_chains() has returned.
ChainsConstructed == Len(yielded) >= 9

\* The weights as they were right after balancing.
BalancedWeights == yielded[8].weight

\* C1: on a connected planar graph with at least two nodes regularize()
\* raises no error, and once it has returned every node other than the
\* (y, x)-minimum has an inward edge and every node other than the
\* (y, x)-maximum has an outward edge.
C1_RegularizeMakesRegular ==
    InputIsValid =>
        /\ raised \notin {"add_regularizing_inward_edge",
                          "add_regularizing_outward_edge"}
        /\ Regularized =>
              /\ \A v \in nodes \ {YXMin(nodes)} :
                    \E e \in edges : Second(e) = v
              /\ \A v \in nodes \ {YXMax(nodes)} :
                    \E e \in edges : First(e) = v

\* Both sweeps of regularize() have added an edge and it has returned.
C1_Witness ==
    /\ InputIsValid
    /\ Regularized
    /\ ~IsRegular(yielded[2].nodes, yielded[2].edges)
    /\ \E e \in AddedEdges : \E f \in AddedEdges :
          /\ e # f
          /\ \A g \in OrientedInput : Second(g) # Second(e)
          /\ \A g \in OrientedInput : First(g) # First(f)

\* C2: every edge regularization adds keeps the graph planar: it crosses no
\* other edge and passes through no node.
C2_RegularizationKeepsPlanarity ==
    InputIsValid => \A e \in AddedEdges : EdgeIsPlanarIn(e, nodes, edges)

\* The edges of E that enter / leave v.
EdgesInto(E, v) == {e \in E : Second(e) = v}
EdgesOutOf(E, v) == {e \in E : First(e) = v}

\* C3: after both balancing passes over a regular graph whose weights were
\* all 1, at every node other than the minimum and the maximum the inward
\* weights sum to the outward weights.
C3_BalancedWeightsConserved ==
    (InputIsValid /\ Balanced) =>
        \A v \in nodes \ {YXMin(nodes), YXMax(nodes)} :
            SumWeights(EdgesInto(edges, v), BalancedWeights)
                = SumWeights(EdgesOutOf(edges, v), BalancedWeights)

\* Both balancing passes have raised a weight.
C3_Witness ==
    /\ InputIsValid
    /\ Balanced
    /\ \A e \in edges : yielded[6].weight[e] = 1
    /\ yielded[7].weight # yielded[6].weight
    /\ yielded[8].weight # yielded[7].weight
    /\ nodes \ {YXMin(nodes), YXMax(nodes)} # {}

\* C4: when construct_monotone_chains() has returned every edge has
\* weight 0.
C4_AllWeightsConsumed ==
    (InputIsValid /\ ChainsConstructed) => \A e \in edges : weight[e] = 0

\* Chains have been extracted from a graph with an edge of balanced weight
\* above 1.
C4_Witness ==
    /\ InputIsValid
    /\ ChainsConstructed
    /\ Len(chains) >= 2
    /\ \E e \in edges : BalancedWeights[e] > 1
    /\ \A e \in edges : weight[e] = 0

\* C5: every extracted chain is a non-empty path from the minimum node to
\* the maximum node: its first edge starts at the minimum, each edge starts
\* where the one before it ends, and the maximum is reached by the last edge
\* and by no earlier one.
C5_ChainsArePaths ==
    (InputIsValid /\ ChainsConstructed) =>
        \A k \in 1 .. Len(chains) :
            LET c == chains[k]
            IN  /\ c # <<>>
                /\ First(c[1]) = YXMin(nodes)
                /\ Second(c[Len(c)]) = YXMax(nodes)
                /\ \A j \in 1 .. Len(c) - 1 :
                      /\ Second(c[j]) = First(c[j + 1])
                      /\ Second(c[j]) # YXMax(nodes)

\* A chain of three edges or more has been extracted.
C5_Witness ==
    /\ InputIsValid
    /\ ChainsConstructed
    /\ \E k \in 1 .. Len(chains) :
          /\ Len(chains[k]) >= 3
          /\ First(chains[k][1]) = YXMin(nodes)
          /\ Second(chains[k][Len(chains[k])]) = YXMax(nodes)

\* C6: every edge of every chain, original or added by regularization, goes
\* from its (y, x)-lower endpoint to its (y, x)-higher endpoint, so the y
\* coordinates along a chain never decrease.
C6_ChainsAreMonotone ==
    (InputIsValid /\ ChainsConstructed) =>
        \A k \in 1 .. Len(chains) : \A j \in 1 .. Len(chains[k]) :
            LET e == chains[k][j]
            IN  /\ \/ Y(First(e)) < Y(Second(e))
                   \/ Y(First(e)) = Y(Second(e)) /\ X(First(e)) < X(Second(e))
                /\ j > 1 => Y(Second(chains[k][j - 1])) <= Y(Second(e))

\* A chain of two edges or more runs over an edge regularization added.
C6_Witness ==
    /\ InputIsValid
    /\ ChainsConstructed
    /\ \E k \in 1 .. Len(chains) : \E j \in 1 .. Len(chains[k]) :
          /\ chains[k][j] \in AddedEdges
          /\ Len(chains[k]) >= 2
          /\ Y(First(chains[k][j])) < Y(Second(chains[k][j]))

\* C7: the number of chains extracted equals the sum of the weights the
\* outward edges of the minimum node have after balancing.
C7_ChainCount ==
    (InputIsValid /\ ChainsConstructed) =>
        Len(chains) = SumWeights(EdgesOutOf(edges, YXMin(nodes)), BalancedWeights)

\* Three chains or more leave the minimum node, one edge carrying more than
\* one of them.
C7_Witness ==
    /\ InputIsValid
    /\ ChainsConstructed
    /\ Len(chains) >= 3
    /\ \E e \in EdgesOutOf(edges, YXMin(nodes)) : BalancedWeights[e] >= 2

\* The position of a point relative to an upward edge and to a chain,
\* stated on coordinates.  An edge spans p when p's height lies between the
\* heights of its endpoints.
Spans(e, p) == Y(First(e)) <= Y(p) /\ Y(p) <= Y(Second(e))

StrictlyLeftOfEdge(e, p) ==
    IF Y(First(e)) = Y(Second(e))
    THEN X(p) < X(First(e)) /\ X(p) < X(Second(e))
    ELSE (X(p) - X(First(e))) * (Y(Second(e)) - Y(First(e)))
            < (X(Second(e)) - X(First(e))) * (Y(p) - Y(First(e)))

StrictlyRightOfEdge(e, p) ==
    IF Y(First(e)) = Y(Second(e))
    THEN X(p) > X(First(e)) /\ X(p) > X(Second(e))
    ELSE (X(p) - X(First(e))) * (Y(Second(e)) - Y(First(e)))
            > (X(Second(e)) - X(First(e))) * (Y(p) - Y(First(e)))

SpanningEdges(c, p) == {j \in 1 .. Len(c) : Spans(c[j], p)}

OnChain(c, p) == \E j \in 1 .. Len(c) : OnSegment(p, First(c[j]), Second(c[j]))

StrictlyLeftOfChain(c, p) ==
    /\ SpanningEdges(c, p) # {}
    /\ \A j \in SpanningEdges(c, p) : StrictlyLeftOfEdge(c[j], p)

StrictlyRightOfChain(c, p) ==
    /\ SpanningEdges(c, p) # {}
    /\ \A j \in SpanningEdges(c, p) : StrictlyRightOfEdge(c[j], p)

\* The nodes a chain visits.
ChainNodes(c) == {First(c[j]) : j \in 1 .. Len(c)} \cup {Second(c[j]) : j \in 1 .. Len(c)}

\* C8: the chains come out in left-to-right order: for i < j no node of
\* chain j is strictly to the left of chain i.
C8_ChainsLeftToRight ==
    (InputIsValid /\ ChainsConstructed) =>
        \A a \in 1 .. Len(chains) : \A b \in 1 .. Len(chains) :
            a < b => \A v \in ChainNodes(chains[b]) :
                        ChainTurn(chains[a], v) # "left"

\* search() has returned a pair.
SearchReturned == pc = "done"

\* C9: the pair search() returns brackets the point: (c, c) with the point
\* on chain c, or two adjacent chains (i, i + 1) with the point not left of
\* the first and not right of the second, or a pair with one side None when
\* the point lies outside, left of every chain or right of every chain.
C9_ResultBracketsPoint ==
    (InputIsValid /\ SearchReturned) =>
        LET l == result[1]
            r == result[2]
        IN  \/ /\ l # NoNode
               /\ l = r
               /\ OnChain(chains[l + 1], point)
            \/ /\ l # NoNode
               /\ r = l + 1
               /\ ~StrictlyLeftOfChain(chains[l + 1], point)
               /\ ~StrictlyRightOfChain(chains[r + 1], point)
            \/ /\ l = NoNode
               /\ r # NoNode
               /\ \A k \in 1 .. Len(chains) : StrictlyLeftOfChain(chains[k], point)
            \/ /\ l # NoNode
               /\ r = NoNode
               /\ \A k \in 1 .. Len(chains) : StrictlyRightOfChain(chains[k], point)

\* C10: a point strictly left of the leftmost chain yields
\* (None, chains[0]) and a point strictly right of the rightmost chain
\* yields (chains[-1], None); the circular thread between the last and the
\* first leaf is never followed.
C10_OutsidePointsGetNone ==
    (InputIsValid /\ SearchReturned) =>
        /\ StrictlyLeftOfChain(chains[1], point) => result = <<NoNode, 0>>
        /\ StrictlyRightOfChain(chains[Len(chains)], point)
              => result = <<Len(chains) - 1, NoNode>>

\* The query point of test_chain1.
PreparataShamosPoint == <<16, 6>>

\* C11: on the Preparata-Shamos graph chain() extracts 10 chains, and for
\* the point (16, 6) search returns the path [right, left, right, next] and
\* the pair (chains[6], chains[7]).
C11_PreparataShamosExample ==
    pslg = PreparataShamosGraph =>
        /\ ChainsConstructed => Len(chains) = 10
        /\ (pc = "done" /\ point = PreparataShamosPoint) =>
              /\ searchPath = <<"right", "left", "right", "next">>
              /\ result = <<6, 7>>

\* chain() has run to its end on the Preparata-Shamos graph and (16, 6).
C11_Witness ==
    /\ pslg = PreparataShamosGraph
    /\ point = PreparataShamosPoint
    /\ pc = "done"
    /\ Len(chains) = 10
    /\ Len(yielded) = 11

\* The kinds of the items chain() yields, in the order of its yield
\* statements.
YieldOrder ==
    <<"nodes", "graph", "lists", "lists", "graph", "graph", "graph", "graph",
      "chains", "tree", "result">>

\* What the k-th item has to be, given the items before it.
ItemIsStage(k) ==
    LET item == yielded[k] IN
    /\ item.kind = YieldOrder[k]
    /\ k = 1 => item.value = SortedNodes(pslg.nodes)
    /\ k = 2 => item.nodes = pslg.nodes /\ item.edges = OrientedInput
    /\ k = 3 => \A n \in 1 .. Len(item.value) : \A m \in 1 .. Len(item.value[n]) :
                    Second(item.value[n][m]) = yielded[1].value[n]
    /\ k = 4 => \A n \in 1 .. Len(item.value) : \A m \in 1 .. Len(item.value[n]) :
                    First(item.value[n][m]) = yielded[1].value[n]
    /\ k = 5 => OrientedInput \subseteq item.edges
    /\ k = 6 => /\ item.edges = yielded[5].edges
                /\ \A e \in item.edges : item.weight[e] = 1
    /\ k \in {7, 8} => /\ item.edges = yielded[5].edges
                       /\ \A e \in item.edges : item.weight[e] >= yielded[k - 1].weight[e]
    /\ k = 9 => item.value = chains
    /\ k = 10 => item.value = tree
    /\ k = 11 => item.value = <<searchPath, result>>

LiveWeights(lists) ==
    [n \in 1 .. Len(lists) |->
        [m \in 1 .. Len(lists[n]) |-> weight[lists[n][m]]]]

Observable(item) ==
    IF item.kind \in {"lists", "chains"}
    THEN [edges |-> item.value, weights |-> LiveWeights(item.value)]
    ELSE item

\* C13: once an item has been yielded, no later step changes the edges or
\* the weights read through it.
C13_SnapshotsDecoupled ==
    [][\A k \in 1 .. Len(yielded) :
          Observable(yielded[k])' = Observable(yielded[k])]_vars

-----------------------------------------------------------------------------
(***************************************************************************)
(* Graph and OrientedGraph (core.py): a graph object under its methods.    *)
(* PlanarStraightLineGraph inherits every method modelled here from Graph, *)
(* OrientedPlanarStraightLineGraph from OrientedGraph.  An edge is the     *)
(* triple (first, second, weight).                                         *)
(***************************************************************************)
MaxGraphNode == 3
MaxWeight == 1
MaxEdges == 2

GraphClasses == {"Graph", "OrientedGraph"}
GraphNodes == 1 .. MaxGraphNode
Weights == 0 .. MaxWeight
GraphEdges == GraphNodes \X GraphNodes \X Weights

\* An argument that is no edge at all, as in add_edge(42).
NotAnEdge == <<"int", 42>>

Weight(e) == e[3]

\* GraphEdge.reversed: same class, same weight, endpoints swapped.
ReversedEdge(e) == <<Second(e), First(e), Weight(e)>>

\* hash(tuple) of small integers: it depends on the items and their order.
RECURSIVE HashOfTuple(_)
HashOfTuple(t) == IF t = <<>> THEN 7 ELSE 31 * HashOfTuple(Tail(t)) + Head(t)

\* GraphEdge.__hash__ and OrientedGraphEdge.__hash__.
EdgeHash(cls, e) ==
    IF cls = "OrientedGraph"
    THEN HashOfTuple(<<First(e), Second(e), Weight(e)>>)
    ELSE HashOfTuple(<<First(e), Second(e)>>)
            + HashOfTuple(<<Second(e), First(e)>>) + Weight(e)

\* Mutant of EdgeEq: the oriented edge compares its endpoints in either
\* order, as the undirected edge does.
EdgeEqUnordered(cls, e, f) ==
    \/ First(e) = First(f) /\ Second(e) = Second(f)
    \/ First(e) = Second(f) /\ Second(e) = First(f)

\* GraphEdge.__eq__ and OrientedGraphEdge.__eq__.
EdgeEq(cls, e, f) ==
    IF cls = "OrientedGraph"
    THEN First(e) = First(f) /\ Second(e) = Second(f)
    ELSE \/ First(e) = First(f) /\ Second(e) = Second(f)
         \/ First(e) = Second(f) /\ Second(e) = First(f)

\* A Python set takes two objects for the same element when their hashes
\* agree and __eq__ holds.
SameElement(cls, e, f) == EdgeHash(cls, e) = EdgeHash(cls, f) /\ EdgeEq(cls, e, f)

\* `e in E`, E.add(e), E.remove(e) (for an e that is in E) and E == F.
SetContains(cls, E, e) == \E f \in E : SameElement(cls, f, e)
SetAdd(cls, E, e) == IF SetContains(cls, E, e) THEN E ELSE E \cup {e}
SetRemove(cls, E, e) == {f \in E : ~SameElement(cls, f, e)}
SetEq(cls, E, F) ==
    /\ Cardinality(E) = Cardinality(F)
    /\ \A e \in E : SetContains(cls, F, e)

\* The sets of at most k edges a Python set of the class can be.
RECURSIVE EdgeSetsUpTo(_, _)
EdgeSetsUpTo(cls, k) ==
    IF k = 0 THEN {{}}
    ELSE LET smaller == EdgeSetsUpTo(cls, k - 1)
         IN  smaller \cup {SetAdd(cls, E, e) : E \in smaller, e \in GraphEdges}

\* Graph(nodes=N, edges=E): the fields are set as given; the class declares
\* no validator.
NewGraph(N, E) == [nodes |-> N, edges |-> E]

\* Graph.add_node (every object is an instance of node_class).
AddNode(g, v) == [g EXCEPT !.nodes = @ \cup {v}]

\* Mutant of AddEdge: the edge is stored, its endpoints are not added.
AddEdgeWithoutNodes(cls, g, e) ==
    IF cls = "OrientedGraph"
    THEN [g EXCEPT !.edges = SetAdd(cls, @, e)]
    ELSE IF ~SetContains(cls, g.edges, ReversedEdge(e))
         THEN [g EXCEPT !.edges = SetAdd(cls, @, e)]
         ELSE g

\* Graph.add_edge and OrientedGraph.add_edge, for an edge of edge_class.
AddEdge(cls, g, e) ==
    IF cls = "OrientedGraph"
    THEN [nodes |-> g.nodes \cup {First(e), Second(e)},
          edges |-> SetAdd(cls, g.edges, e)]
    ELSE IF ~SetContains(cls, g.edges, ReversedEdge(e))
         THEN [nodes |-> g.nodes \cup {First(e), Second(e)},
               edges |-> SetAdd(cls, g.edges, e)]
         ELSE g

\* Graph.remove_edge, for an edge the set holds.
RemoveEdge(cls, g, e) == [g EXCEPT !.edges = SetRemove(cls, @, e)]

\* Mutant of IncidentEdges: only the edges that start at the node.
IncidentEdgesByFirst(E, v) == {e \in E : First(e) = v}

\* The edges remove_node passes to remove_edge.
IncidentEdges(E, v) == {e \in E : First(e) = v \/ Second(e) = v}

\* Graph.remove_node, for a node the set holds: remove_edge on every
\* incident edge of a copy of the edge set.
RemoveNode(cls, g, v) ==
    [nodes |-> g.nodes \ {v},
     edges |-> {f \in g.edges :
                   \A e \in IncidentEdges(g.edges, v) : ~SameElement(cls, f, e)}]

\* The record of a call: the method, its argument, and the exception it
\* raised ("none" when it returned).
Called(op, arg, exc) == [op |-> op, arg |-> arg, raised |-> exc]

\* The record of a call that returned a value.
Returned(op, arg, value) == [op |-> op, arg |-> arg, raised |-> "none", result |-> value]

\* graph == other for two graphs of one class (the model classes compare
\* field by field): equal node sets and equal edge sets.
GraphEq(cls, g, h) == g.nodes = h.nodes /\ SetEq(cls, g.edges, h.edges)

\* A graph object right after its construction, from explicit collections
\* or with the defaults (empty sets).
GraphInit ==
    /\ pslg = None /\ pc = "graph" /\ nodes = {} /\ edges = {} /\ weight = <<>>
    /\ order = <<>> /\ i = 0 /\ swept = <<>> /\ chains = <<>> /\ node = None
    /\ startEdge = None /\ tree = None /\ point = None /\ chainNode = NoNode
    /\ searchPath = <<>> /\ result = None /\ yielded = <<>> /\ raised = "none"
    /\ \E cls \in GraphClasses, N \in SUBSET GraphNodes :
       \E E \in EdgeSetsUpTo(cls, MaxEdges) :
          /\ given = [cls |-> cls, empty |-> (N = {} /\ E = {})]
          /\ graph = NewGraph(N, E)
          /\ call = Called("__init__", <<N, E>>, "none")

CallAddNode ==
    /\ \E v \in GraphNodes :
          /\ graph' = AddNode(graph, v)
          /\ call' = Called("add_node", v, "none")
    /\ UNCHANGED <<given, chainVars>>

CallAddEdge ==
    /\ Cardinality(graph.edges) < MaxEdges
    /\ \E e \in GraphEdges \cup {NotAnEdge} :
          IF e = NotAnEdge
          THEN /\ graph' = graph
               /\ call' = Called("add_edge", e, "TypeError")
          ELSE /\ graph' = AddEdge(given.cls, graph, e)
               /\ call' = Called("add_edge", e, "none")
    /\ UNCHANGED <<given, chainVars>>

CallRemoveNode ==
    /\ \E v \in GraphNodes :
          IF v \in graph.nodes
          THEN /\ graph' = RemoveNode(given.cls, graph, v)
               /\ call' = Called("remove_node", v, "none")
          ELSE /\ graph' = graph
               /\ call' = Called("remove_node", v, "KeyError")
    /\ UNCHANGED <<given, chainVars>>

CallRemoveEdge ==
    /\ \E e \in GraphEdges :
          IF SetContains(given.cls, graph.edges, e)
          THEN /\ graph' = RemoveEdge(given.cls, graph, e)
               /\ call' = Called("remove_edge", e, "none")
          ELSE /\ graph' = graph
               /\ call' = Called("remove_edge", e, "KeyError")
    /\ UNCHANGED <<given, chainVars>>

\* e == f, for any edge e and an edge f of the live graph.
CallEdgeEq ==
    /\ \E e \in GraphEdges, f \in graph.edges :
          call' = Returned("__eq__", <<e, f>>, EdgeEq(given.cls, e, f))
    /\ UNCHANGED <<given, graph, chainVars>>

\* graph == other, for another graph of the same class that has one edge
\* and its two endpoints.
CallGraphEq ==
    /\ \E f \in GraphEdges :
          LET other == NewGraph({First(f), Second(f)}, {f})
          IN  call' = Returned("graph.__eq__", other, GraphEq(given.cls, graph, other))
    /\ UNCHANGED <<given, graph, chainVars>>

GraphNext ==
    \/ CallAddNode
    \/ CallAddEdge
    \/ CallRemoveNode
    \/ CallRemoveEdge
    \/ CallEdgeEq
    \/ CallGraphEq

GraphSpec == GraphInit /\ [][GraphNext]_vars

-----------------------------------------------------------------------------
\* Properties of the graph classes.

\* Every edge has both endpoints among the nodes.
Membership(g) ==
    \A e \in g.edges : First(e) \in g.nodes /\ Second(e) \in g.nodes

\* The step is a call of add_edge with an edge.
AddEdgeStep == call'.op = "add_edge" /\ call'.arg \in GraphEdges

\* C14: in a graph that was constructed empty, after any sequence of
\* add_node, add_edge, remove_node and remove_edge calls every edge has both
\* of its endpoints in `nodes`.
C14_EndpointsAreNodes == given.empty => Membership(graph)

\* A graph constructed empty holds an edge after a node has been removed.
C14_Witness ==
    /\ given.empty
    /\ call.op = "remove_node"
    /\ call.raised = "none"
    /\ graph.edges # {}
    /\ Cardinality(graph.nodes) = 2

\* C15: add_edge on a graph whose node set lacks an endpoint of the edge
\* returns, and afterwards the edge is in `edges` and both endpoints are in
\* `nodes`.
C15_AddEdgeInsertsEndpoints ==
    [][(AddEdgeStep /\ ~({First(call'.arg), Second(call'.arg)} \subseteq graph.nodes))
        => /\ call'.raised = "none"
           /\ SetContains(given.cls, graph'.edges, call'.arg)
           /\ {First(call'.arg), Second(call'.arg)} \subseteq graph'.nodes]_vars

\* C16: add_edge on a Graph with an edge whose endpoints are not among the
\* nodes raises ValueError.
C16_AddEdgeRaisesValueError ==
    [][(/\ AddEdgeStep
        /\ given.cls = "Graph"
        /\ ~({First(call'.arg), Second(call'.arg)} \subseteq graph.nodes))
        => call'.raised = "ValueError"]_vars

\* C17: constructing a Graph from node and edge collections in which an
\* edge has an endpoint that is not a node raises ValueError; no graph
\* without the membership invariant is produced.
C17_ConstructorValidates ==
    (call.op = "__init__" /\ given.cls = "Graph") =>
        \/ call.raised = "ValueError"
        \/ Membership(graph)

\* C18: in an undirected graph add_edge(e) changes nothing when the graph
\* holds an edge with e's endpoints swapped, so no two stored edges join the
\* same two nodes in opposite directions.
C18_ReverseIsNoOp ==
    [][(/\ AddEdgeStep
        /\ given.cls = "Graph"
        /\ \E f \in graph.edges :
              First(f) = Second(call'.arg) /\ Second(f) = First(call'.arg))
        => graph' = graph]_vars

\* f has the endpoints of e in the same order / in the opposite order.
SameDirection(e, f) == First(e) = First(f) /\ Second(e) = Second(f)
OppositeDirection(e, f) == First(e) = Second(f) /\ Second(e) = First(f)

\* What the comparisons of edges and of graphs return.
ComparisonsAsClaimed ==
    /\ call.op = "__eq__" =>
          LET e == call.arg[1]
              f == call.arg[2]
          IN  /\ SameDirection(e, f) => call.result = TRUE
              /\ (given.cls = "Graph" /\ OppositeDirection(e, f)) => call.result = TRUE
              /\ (given.cls = "OrientedGraph" /\ OppositeDirection(e, f)
                    /\ First(e) # Second(e)) => call.result = FALSE
    /\ (call.op = "graph.__eq__" /\ given.cls = "OrientedGraph") =>
          \A e \in graph.edges : \A f \in call.arg.edges :
              (/\ graph.edges = {e}
               /\ OppositeDirection(e, f)
               /\ First(e) # Second(e)) => call.result = FALSE

\* C19: an undirected edge equals its reverse; an oriented edge with
\* distinct endpoints never equals its reverse, and equals an edge with the
\* same endpoints in the same order whatever the weights; add_edge on an
\* oriented graph keeps the edges held and stores the new one, so a->b and
\* b->a are held together; two oriented graphs whose single edges run in
\* opposite directions are unequal.
C19_EdgeEquality ==
    /\ []ComparisonsAsClaimed
    /\ [][(AddEdgeStep /\ given.cls = "OrientedGraph")
            => /\ graph.edges \subseteq graph'.edges
               /\ call'.arg \in graph'.edges]_vars

\* An oriented graph holds a->b and b->a, and the two have been compared.
C19_Witness ==
    /\ given.cls = "OrientedGraph"
    /\ call.op = "__eq__"
    /\ First(call.arg[1]) # Second(call.arg[1])
    /\ Weight(call.arg[1]) # Weight(call.arg[2])
    /\ OppositeDirection(call.arg[1], call.arg[2])
    /\ {call.arg[1], call.arg[2]} \subseteq graph.edges
    /\ call.result = FALSE

\* The step is a call of remove_node on a node of the graph.
RemoveNodeStep == call'.op = "remove_node" /\ call'.arg \in graph.nodes

\* C20: remove_node(v) on a graph that contains v removes v from `nodes`
\* and every edge that has v as an endpoint; the other nodes and the edges
\* not incident to v stay as they are.
C20_RemoveNodeCascades ==
    [][RemoveNodeStep =>
          LET v == call'.arg IN
          /\ call'.raised = "none"
          /\ graph'.nodes = graph.nodes \ {v}
          /\ \A e \in graph'.edges : First(e) # v /\ Second(e) # v
          /\ graph'.edges = {e \in graph.edges : First(e) # v /\ Second(e) # v}]_vars

\* remove_node has removed a node and an edge and has left another edge.
C20_Witness ==
    /\ call.op = "remove_node"
    /\ call.raised = "none"
    /\ call.arg \notin graph.nodes
    /\ Cardinality(graph.edges) = 1
    /\ Cardinality(graph.nodes) = 2
    /\ Membership(graph)
    /\ given.empty

-----------------------------------------------------------------------------
(***************************************************************************)
(* PlanarStraightLineGraph and OrientedPlanarStraightLineGraph (core.py):  *)
(* graphs whose nodes are points and whose edges carry a weight.  An edge  *)
(* is the triple (first, second, weight).                                  *)
(***************************************************************************)
MaxPslgEdges == 2

PslgClasses == {"PlanarStraightLineGraph", "OrientedPlanarStraightLineGraph"}

\* The weighted edges between two distinct grid points, in either direction.
PslgEdges == {e \in GridPoints \X GridPoints \X Weights : First(e) # Second(e)}

\* Two edge objects are one element of a Python set when their hashes agree
\* and __eq__ holds: for the undirected edge, the same endpoints in either
\* order and the same weight; for the oriented edge, the same triple.
SamePslgElement(cls, e, f) ==
    IF cls = "OrientedPlanarStraightLineGraph"
    THEN e = f
    ELSE e = f \/ e = ReversedEdge(f)

\* The edge sets of at most k elements a graph of the class can hold.
RECURSIVE PslgEdgeSets(_, _)
PslgEdgeSets(cls, k) ==
    IF k = 0 THEN {{}}
    ELSE LET smaller == PslgEdgeSets(cls, k - 1)
         IN  smaller \cup
             UNION {{E \cup {e} :
                        e \in {f \in PslgEdges :
                                  \A d \in E : ~SamePslgElement(cls, d, f)}} :
                    E \in smaller}

\* Mutant of FromPlanarStraightLineGraph: the oriented edges get the default
\* weight instead of the weight of the edge they come from.
FromPlanarStraightLineGraphDefaultWeight(g) ==
    [nodes |-> g.nodes,
     edges |-> {Append(UpwardOrientedEdge(e), 0) : e \in g.edges}]

\* OrientedPlanarStraightLineGraph.from_planar_straight_line_graph: the node
\* set of the argument and the set of its edges, each one oriented upward
\* with its weight.
FromPlanarStraightLineGraph(g) ==
    [nodes |-> g.nodes,
     edges |-> {Append(UpwardOrientedEdge(e), Weight(e)) : e \in g.edges}]

\* A graph of points right after its construction.
PslgInit ==
    /\ pslg = None /\ pc = "pslg" /\ nodes = {} /\ edges = {} /\ weight = <<>>
    /\ order = <<>> /\ i = 0 /\ swept = <<>> /\ chains = <<>> /\ node = None
    /\ startEdge = None /\ tree = None /\ point = None /\ chainNode = NoNode
    /\ searchPath = <<>> /\ result = None /\ yielded = <<>> /\ raised = "none"
    /\ \E cls \in PslgClasses :
       \E E \in PslgEdgeSets(cls, MaxPslgEdges) :
       \E N \in {{First(e) : e \in E} \cup {Second(e) : e \in E}, GridPoints} :
          /\ given = [cls |-> cls]
          /\ graph = NewGraph(N, E)
          /\ call = Called("__init__", <<N, E>>, "none")

CallFromPlanarStraightLineGraph ==
    /\ given.cls = "PlanarStraightLineGraph"
    /\ call' = Returned("from_planar_straight_line_graph", graph,
                        FromPlanarStraightLineGraph(graph))
    /\ UNCHANGED <<given, graph, chainVars>>

CallInwardEdges ==
    /\ given.cls = "OrientedPlanarStraightLineGraph"
    /\ \E v \in graph.nodes :
       \E sorted \in InwardEdges(graph.edges, v) :
          call' = Returned("inward_edges", v, sorted)
    /\ UNCHANGED <<given, graph, chainVars>>

CallOutwardEdges ==
    /\ given.cls = "OrientedPlanarStraightLineGraph"
    /\ \E v \in graph.nodes :
       \E sorted \in OutwardEdges(graph.edges, v) :
          call' = Returned("outward_edges", v, sorted)
    /\ UNCHANGED <<given, graph, chainVars>>

PslgNext ==
    \/ CallFromPlanarStraightLineGraph
    \/ CallInwardEdges
    \/ CallOutwardEdges

PslgSpec == PslgInit /\ [][PslgNext]_vars

(***************************************************************************)
(* Properties of the graphs of points.                                     *)
(***************************************************************************)
\* The call on record is from_planar_straight_line_graph.
Oriented == call.op = "from_planar_straight_line_graph"

\* The oriented edges that stand for the edge e of the argument: the same
\* two endpoints and the same weight.
OrientedEdgesOf(E, e) ==
    {o \in E : {First(o), Second(o)} = {First(e), Second(e)} /\ Weight(o) = Weight(e)}

\* C21: from_planar_straight_line_graph(g) keeps the node set of g and holds
\* exactly one oriented edge per edge of g; that edge runs from the endpoint
\* that is lower in (y, x) order to the higher one, whichever way the edge
\* was given, and has the weight of the edge.
C21_FromPlanarOrientsUpward ==
    Oriented =>
        LET g == call.arg
            o == call.result
        IN  /\ o.nodes = g.nodes
            /\ Cardinality(o.edges) = Cardinality(g.edges)
            /\ \A e \in g.edges : Cardinality(OrientedEdgesOf(o.edges, e)) = 1
            /\ \A e \in o.edges :
                  /\ \E f \in g.edges : e \in OrientedEdgesOf(o.edges, f)
                  /\ \/ Y(First(e)) < Y(Second(e))
                     \/ Y(First(e)) = Y(Second(e)) /\ X(First(e)) < X(Second(e))

\* A graph with an isolated node, an edge given downward and an edge of
\* another weight given from right to left on one level has been oriented.
C21_Witness ==
    /\ Oriented
    /\ \E e \in call.arg.edges : Y(First(e)) > Y(Second(e)) /\ Weight(e) = 1
    /\ \E e \in call.arg.edges :
          Y(First(e)) = Y(Second(e)) /\ X(First(e)) > X(Second(e)) /\ Weight(e) = 0
    /\ \E v \in call.arg.nodes : \A e \in call.arg.edges : First(e) # v /\ Second(e) # v

\* The direction from the node v to the other endpoint of its edge e.
DirectionFrom(v, e) == <<X(OtherNode(e, v)) - X(v), Y(OtherNode(e, v)) - Y(v)>>

\* The half-axis or open quadrant a direction d # (0, 0) lies in, counted
\* counterclockwise from the positive x-axis: 0, 2, 4, 6 are the half-axes.
Sector(d) ==
    IF d[2] = 0 THEN (IF d[1] > 0 THEN 0 ELSE 4)
    ELSE IF d[1] = 0 THEN (IF d[2] > 0 THEN 2 ELSE 6)
    ELSE IF d[2] > 0 THEN (IF d[1] > 0 THEN 1 ELSE 3)
    ELSE (IF d[1] < 0 THEN 5 ELSE 7)

\* Inside one sector the angle grows with the slope d[2] / d[1].
SlopeAtMost(d, e) == d[2] * e[1] <= e[2] * d[1]

\* angle(d) <= angle(e) for the angles in [0, 2 pi).
NonnegativeAngleAtMost(d, e) ==
    \/ Sector(d) < Sector(e)
    \/ Sector(d) = Sector(e) /\ SlopeAtMost(d, e)

\* The sector counted from the negative x-axis, for the angles in (-pi, pi].
SignedSector(d) == IF Sector(d) >= 5 THEN Sector(d) - 8 ELSE Sector(d)

\* angle(d) <= angle(e) for the signed angles in (-pi, pi].
SignedAngleAtMost(d, e) ==
    \/ SignedSector(d) < SignedSector(e)
    \/ SignedSector(d) = SignedSector(e) /\ SlopeAtMost(d, e)

\* The direction leads to a point that is lower, or higher, in (y, x) order.
LeadsBelow(d) == d[2] < 0 \/ (d[2] = 0 /\ d[1] < 0)
LeadsAbove(d) == d[2] > 0 \/ (d[2] = 0 /\ d[1] > 0)

\* Of two directions that lead below, d is not to the right of e: the level
\* direction to the left comes first, and below the level they are compared
\* by the abscissa they reach one unit lower.
LeftToRightBelow(d, e) ==
    IF d[2] = 0 THEN TRUE
    ELSE e[2] # 0 /\ d[1] * (-e[2]) <= e[1] * (-d[2])

\* Of two directions that lead above, d is not to the right of e: the level
\* direction to the right comes last.
LeftToRightAbove(d, e) ==
    IF e[2] = 0 THEN TRUE
    ELSE d[2] # 0 /\ d[1] * e[2] <= e[1] * d[2]

\* The sequence s lists the set S, each element once.
Lists(s, S) == Len(s) = Cardinality(S) /\ {s[k] : k \in DOMAIN s} = S

\* C22: inward_edges(v) of an oriented graph is the list of exactly the edges
\* whose second endpoint is v, by ascending polar angle in [0, 2 pi) of the
\* other endpoint seen from v; outward_edges(v) is the list of exactly the
\* edges whose first endpoint is v, by descending signed polar angle.  For
\* edges that come from below, or go above, both lists run left to right.
C22_EdgeListsByPolarAngle ==
    /\ call.op = "inward_edges" =>
          LET v == call.arg
              s == call.result
          IN  /\ Lists(s, {e \in graph.edges : Second(e) = v})
              /\ \A k \in 1 .. Len(s) - 1 :
                    LET d == DirectionFrom(v, s[k])
                        e == DirectionFrom(v, s[k + 1])
                    IN  /\ NonnegativeAngleAtMost(d, e)
                        /\ LeadsBelow(d) /\ LeadsBelow(e) => LeftToRightBelow(d, e)
    /\ call.op = "outward_edges" =>
          LET v == call.arg
              s == call.result
          IN  /\ Lists(s, {e \in graph.edges : First(e) = v})
              /\ \A k \in 1 .. Len(s) - 1 :
                    LET d == DirectionFrom(v, s[k])
                        e == DirectionFrom(v, s[k + 1])
                    IN  /\ SignedAngleAtMost(e, d)
                        /\ LeadsAbove(d) /\ LeadsAbove(e) => LeftToRightAbove(d, e)

\* outward_edges has returned the two edges of the graph, the first going up
\* and to the left and the second going down and to the right.
C22_Witness ==
    /\ call.op = "outward_edges"
    /\ Len(call.result) = 2
    /\ Sector(DirectionFrom(call.arg, call.result[1])) = 3
    /\ Sector(DirectionFrom(call.arg, call.result[2])) = 7
    /\ Cardinality(graph.edges) = 2

-----------------------------------------------------------------------------
(***************************************************************************)
(* AVLTree (core.py): a tree object under insert and delete.  A node is    *)
(* the record of its fields data, left, right and height; an absent child  *)
(* and the root of the empty tree are None.                                *)
(***************************************************************************)
MaxKey == 4
MaxAvlSize == 4

Keys == 1 .. MaxKey

Max(a, b) == IF a >= b THEN a ELSE b

\* BinTreeNode(data=data): no children, height 0.
BinTreeNode(data) == [data |-> data, left |-> None, right |-> None, height |-> 0]

\* `child.height if child else 0`.
HeightOrZero(child) == IF child = None THEN 0 ELSE child.height

\* BinTreeNode.set_height.
SetHeight(n) ==
    [n EXCEPT !.height =
        IF n.left # None \/ n.right # None
        THEN Max(HeightOrZero(n.left), HeightOrZero(n.right)) + 1
        ELSE 0]

\* BinTreeNode.balance_factor.
BalanceFactor(n) == HeightOrZero(n.right) - HeightOrZero(n.left)

\* AVLTree._rotate_left.
RotateLeft(n) ==
    LET heavy_node == n.right
        swapped_subnode == heavy_node.left
        lowered == SetHeight([n EXCEPT !.right = swapped_subnode])
    IN  SetHeight([heavy_node EXCEPT !.left = lowered])

\* AVLTree._rotate_right.
RotateRight(n) ==
    LET heavy_node == n.left
        swapped_subnode == heavy_node.right
        lowered == SetHeight([n EXCEPT !.left = swapped_subnode])
    IN  SetHeight([heavy_node EXCEPT !.right = lowered])

\* AVLTree.rebalance.
Rebalance(n) ==
    IF BalanceFactor(n) = -2
    THEN IF BalanceFactor(n.left) = 1
         THEN RotateRight([n EXCEPT !.left = RotateLeft(n.left)])
         ELSE RotateRight(n)
    ELSE IF BalanceFactor(n) = 2
    THEN IF BalanceFactor(n.right) = -1
         THEN RotateLeft([n EXCEPT !.right = RotateRight(n.right)])
         ELSE RotateLeft(n)
    ELSE n

\* AVLTree._insert for a value that is not a node.
RECURSIVE AvlInsert(_, _)
AvlInsert(data, n) ==
    IF n = None THEN BinTreeNode(data)
    ELSE IF data < n.data
    THEN Rebalance(SetHeight([n EXCEPT !.left = AvlInsert(data, n.left)]))
    ELSE Rebalance(SetHeight([n EXCEPT !.right = AvlInsert(data, n.right)]))

\* BinTreeNode.leftmost_node.
RECURSIVE LeftmostNode(_)
LeftmostNode(n) == IF n.left = None THEN n ELSE LeftmostNode(n.left)

\* AVLTree._delete.  copy_contents_without_children gives the node the data
\* and the height of its inorder successor and leaves its children alone.
RECURSIVE AvlDelete(_, _)
AvlDelete(data, n) ==
    IF n = None THEN None
    ELSE IF data < n.data
    THEN Rebalance(SetHeight([n EXCEPT !.left = AvlDelete(data, n.left)]))
    ELSE IF data > n.data
    THEN Rebalance(SetHeight([n EXCEPT !.right = AvlDelete(data, n.right)]))
    ELSE IF n.left = None \/ n.right = None
    THEN (IF n.left # None THEN n.left ELSE n.right)
    ELSE LET inorder_successor == LeftmostNode(n.right)
             copied == [n EXCEPT !.data = inorder_successor.data,
                                 !.height = inorder_successor.height]
         IN  Rebalance(SetHeight(
                 [copied EXCEPT !.right = AvlDelete(inorder_successor.data, n.right)]))

\* The number of nodes below and including n.
RECURSIVE Size(_)
Size(n) == IF n = None THEN 0 ELSE 1 + Size(n.left) + Size(n.right)

\* AVLTree(): the empty tree.
AvlInit ==
    /\ pslg = None /\ pc = "avl" /\ nodes = {} /\ edges = {} /\ weight = <<>>
    /\ order = <<>> /\ i = 0 /\ swept = <<>> /\ chains = <<>> /\ node = None
    /\ startEdge = None /\ point = None /\ chainNode = NoNode
    /\ searchPath = <<>> /\ result = None /\ yielded = <<>> /\ raised = "none"
    /\ given = None /\ graph = None
    /\ tree = [root |-> None]
    /\ call = Called("__init__", None, "none")

AvlVars == <<pslg, pc, nodes, edges, weight, order, i, swept, chains, node,
             startEdge, point, chainNode, searchPath, result, yielded, raised,
             given, graph>>

\* tree.insert(data).
CallInsert ==
    /\ Size(tree.root) < MaxAvlSize
    /\ \E data \in Keys :
          /\ tree' = [root |-> AvlInsert(data, tree.root)]
          /\ call' = Called("insert", data, "none")
    /\ UNCHANGED AvlVars

\* tree.delete(data).
CallDelete ==
    /\ \E data \in Keys :
          /\ tree' = [root |-> AvlDelete(data, tree.root)]
          /\ call' = Called("delete", data, "none")
    /\ UNCHANGED AvlVars

AvlNext == CallInsert \/ CallDelete

AvlSpec == AvlInit /\ [][AvlNext]_vars

(***************************************************************************)
(* Properties of the AVL tree.                                             *)
(***************************************************************************)
\* The height of a subtree: the number of edges on its longest downward
\* path, and -1 for the empty subtree.
RECURSIVE SubtreeHeight(_)
SubtreeHeight(n) ==
    IF n = None THEN -1
    ELSE 1 + Max(SubtreeHeight(n.left), SubtreeHeight(n.right))

\* At every node the heights of the two subtrees differ by at most 1.
RECURSIVE HeightBalanced(_)
HeightBalanced(n) ==
    \/ n = None
    \/ /\ SubtreeHeight(n.left) - SubtreeHeight(n.right) \in {-1, 0, 1}
       /\ HeightBalanced(n.left)
       /\ HeightBalanced(n.right)

\* C23: after any sequence of insert and delete on an empty AVL tree the
\* heights of the left and right subtrees of every node differ by at most 1.
C23_AvlHeightBalanced == HeightBalanced(tree.root)

-----------------------------------------------------------------------------
(***************************************************************************)
(* ThreadedBinTree (core.py): a tree built by from_iterable, dumped and    *)
(* loaded again.  The nodes of a tree are named by their inorder position  *)
(* (from 0); NoNode stands for None in a reference, None for an absent     *)
(* node in a dump.                                                         *)
(***************************************************************************)
MaxTreeSize == 5
MaxData == 2

\* The iterables from_iterable is called with.
RECURSIVE SeqsUpTo(_, _)
SeqsUpTo(S, k) ==
    IF k = 0 THEN {<<>>}
    ELSE LET shorter == SeqsUpTo(S, k - 1)
         IN  shorter \cup {Append(s, x) : s \in shorter, x \in S}

Iterables == SeqsUpTo(1 .. MaxData, MaxTreeSize)

\* Mutant of ThreadedBinTreeFromIterable: the nodes hold the items of the
\* iterable in reverse.
ThreadedBinTreeFromReversed(iterable, circular) ==
    LET t == ThreadedFromIterable(Len(iterable), circular)
    IN  [root |-> t.root, left |-> t.left, right |-> t.right, height |-> t.height,
         prev |-> t.prev, next |-> t.next,
         data |-> [v \in 0 .. Len(iterable) - 1 |-> iterable[Len(iterable) - v]]]

\* ThreadedBinTree.from_iterable(iterable, circular): the node built for
\* iterable[mid] holds it as its data.
ThreadedBinTreeFromIterable(iterable, circular) ==
    LET t == ThreadedFromIterable(Len(iterable), circular)
    IN  [root |-> t.root, left |-> t.left, right |-> t.right, height |-> t.height,
         prev |-> t.prev, next |-> t.next,
         data |-> [v \in 0 .. Len(iterable) - 1 |-> iterable[v + 1]]]

\* The tree from_iterable has returned.
TreeInit ==
    /\ pslg = None /\ pc = "threaded" /\ nodes = {} /\ edges = {} /\ weight = <<>>
    /\ order = <<>> /\ i = 0 /\ swept = <<>> /\ chains = <<>> /\ node = None
    /\ startEdge = None /\ point = None /\ chainNode = NoNode
    /\ searchPath = <<>> /\ result = None /\ yielded = <<>> /\ raised = "none"
    /\ graph = None
    /\ \E iterable \in Iterables, circular \in BOOLEAN :
          /\ given = [iterable |-> iterable, circular |-> circular]
          /\ tree = ThreadedBinTreeFromIterable(iterable, circular)
          /\ call = Called("from_iterable", <<iterable, circular>>, "none")

\* The index of node v in traverse_inorder of the tree.
InorderIndex(t, v) ==
    LET nodes_inorder == TraverseInorder(t.left, t.right, t.root)
    IN  (CHOOSE k \in 1 .. Len(nodes_inorder) : nodes_inorder[k] = v) - 1

\* The dump of the subtree at node v of the copy made by
\* serialize_threaded_bin_tree_or_its_root: every node has got its
\* inorder_index, and its prev and next have become the inorder_index of
\* the node they referred to, or stayed None.
RECURSIVE DumpNode(_, _)
DumpNode(t, v) ==
    IF v = NoNode THEN None
    ELSE [data |-> t.data[v],
          left |-> DumpNode(t, t.left[v]),
          right |-> DumpNode(t, t.right[v]),
          height |-> t.height[v],
          prev |-> IF t.prev[v] = NoNode THEN NoNode ELSE InorderIndex(t, t.prev[v]),
          next |-> IF t.next[v] = NoNode THEN NoNode ELSE InorderIndex(t, t.next[v]),
          inorder_index |-> InorderIndex(t, v)]

\* ThreadedBinTree.model_dump for a tree with a root.
SerializeThreadedBinTree(t) == [root |-> DumpNode(t, t.root)]

\* traverse_inorder over the nodes of a dump.
RECURSIVE DumpInorder(_)
DumpInorder(d) ==
    IF d = None THEN <<>>
    ELSE DumpInorder(d.left) \o <<d>> \o DumpInorder(d.right)

\* ThreadedBinTree(**dump): the nodes are validated from the dump, and
\* deserialize_threaded_bin_tree_root runs when prev or next of the root is
\* an int; it replaces every prev and next that is not None by the node at
\* that index of traverse_inorder.  `deserialized` tells whether the
\* threads are nodes (TRUE) or still the numbers of the dump.
DeserializeThreadedBinTree(dump) ==
    LET nodes_inorder == DumpInorder(dump.root)
        n == Len(nodes_inorder)
        named(d) == IF d = None THEN NoNode
                    ELSE (CHOOSE k \in 1 .. n : nodes_inorder[k] = d) - 1
        deserialized == /\ dump.root # None
                        /\ (dump.root.prev # NoNode \/ dump.root.next # NoNode)
    IN  [root |-> named(dump.root),
         left |-> [v \in 0 .. n - 1 |-> named(nodes_inorder[v + 1].left)],
         right |-> [v \in 0 .. n - 1 |-> named(nodes_inorder[v + 1].right)],
         height |-> [v \in 0 .. n - 1 |-> nodes_inorder[v + 1].height],
         data |-> [v \in 0 .. n - 1 |-> nodes_inorder[v + 1].data],
         prev |-> [v \in 0 .. n - 1 |-> nodes_inorder[v + 1].prev],
         next |-> [v \in 0 .. n - 1 |-> nodes_inorder[v + 1].next],
         deserialized |-> deserialized]

TreeVars == <<pslg, pc, nodes, edges, weight, order, i, swept, chains, node,
              startEdge, point, chainNode, searchPath, result, yielded, raised,
              given, graph>>

\* tree.model_dump(): the work is done on a deep copy; on a tree without a
\* root, copy.root.traverse_inorder() raises AttributeError.
CallModelDump ==
    /\ pc = "threaded"
    /\ IF tree.root = NoNode
       THEN call' = Called("model_dump", None, "AttributeError")
       ELSE call' = Returned("model_dump", None, SerializeThreadedBinTree(tree))
    /\ UNCHANGED <<tree, TreeVars>>

\* ThreadedBinTree(**dump) on the last dump.
CallLoad ==
    /\ pc = "threaded"
    /\ call.op = "model_dump" /\ call.raised = "none"
    /\ call' = Returned("__init__", call.result, DeserializeThreadedBinTree(call.result))
    /\ UNCHANGED <<tree, TreeVars>>

TreeNext == CallModelDump \/ CallLoad

TreeSpec == TreeInit /\ [][TreeNext]_vars

(***************************************************************************)
(* Properties of the threaded tree.                                        *)
(***************************************************************************)
\* The nodes of the tree in inorder.
Inorder == TraverseInorder(tree.left, tree.right, tree.root)

\* C24: after from_iterable(seq, circular) the prev of every node is its left
\* child when it has one and otherwise its inorder predecessor, and its next
\* is its right child when it has one and otherwise its inorder successor;
\* the prev of the first inorder node and the next of the last one wrap
\* around when circular, and are None when not.
C24_ThreadsFollowInorder ==
    pc = "threaded" =>
        \A k \in 1 .. Len(Inorder) :
            LET v == Inorder[k]
                n == Len(Inorder)
            IN  /\ tree.prev[v] =
                      IF tree.left[v] # NoNode THEN tree.left[v]
                      ELSE IF k > 1 THEN Inorder[k - 1]
                      ELSE IF given.circular THEN Inorder[n]
                      ELSE NoNode
                /\ tree.next[v] =
                      IF tree.right[v] # NoNode THEN tree.right[v]
                      ELSE IF k < n THEN Inorder[k + 1]
                      ELSE IF given.circular THEN Inorder[1]
                      ELSE NoNode

\* An acyclic tree of five nodes: its first node has no prev, its last node
\* no next, and the second node, a leaf, is threaded to both its neighbours.
C24_Witness ==
    /\ pc = "threaded"
    /\ ~given.circular
    /\ Len(Inorder) = 5
    /\ tree.prev[Inorder[1]] = NoNode
    /\ tree.next[Inorder[5]] = NoNode
    /\ IsLeaf(tree, Inorder[2])
    /\ tree.prev[Inorder[2]] = Inorder[1]
    /\ tree.next[Inorder[2]] = Inorder[3]

\* The dump on record, for a call of model_dump that returned.
Dumped == call.op = "model_dump" /\ call.raised = "none"

\* The nodes of a dump refer to their threads by 0-based inorder index:
\* the node at index k of the dump has the prev (next) index j exactly when
\* the prev (next) of the k-th inorder node of the tree is the j-th inorder
\* node, and has None where the tree has None.
DumpHasInorderIndices(dump) ==
    LET dumped == DumpInorder(dump.root)
    IN  /\ Len(dumped) = Len(Inorder)
        /\ \A k \in 1 .. Len(dumped) :
              /\ dumped[k].data = tree.data[Inorder[k]]
              /\ dumped[k].prev =
                    IF tree.prev[Inorder[k]] = NoNode THEN NoNode
                    ELSE (CHOOSE j \in 1 .. Len(Inorder) :
                              Inorder[j] = tree.prev[Inorder[k]]) - 1
              /\ dumped[k].next =
                    IF tree.next[Inorder[k]] = NoNode THEN NoNode
                    ELSE (CHOOSE j \in 1 .. Len(Inorder) :
                              Inorder[j] = tree.next[Inorder[k]]) - 1

\* The loaded tree has the data, the shape and the threads of the tree, and
\* its threads are nodes.
LoadedEqualsTree(loaded) ==
    /\ loaded.root = tree.root
    /\ loaded.data = tree.data
    /\ loaded.left = tree.left
    /\ loaded.right = tree.right
    /\ loaded.prev = tree.prev
    /\ loaded.next = tree.next
    /\ \/ loaded.deserialized
       \/ \A v \in DOMAIN loaded.prev : loaded.prev[v] = NoNode /\ loaded.next[v] = NoNode

\* The state of a round trip: model_dump has not raised, the dump on record
\* has the indices, the loaded tree on record equals the tree.
RoundTripHolds ==
    /\ call.op = "model_dump" => call.raised = "none"
    /\ Dumped => DumpHasInorderIndices(call.result)
    /\ call.op = "__init__" => LoadedEqualsTree(call.result)

\* C25: for circular and acyclic threaded trees of every size, model_dump
\* returns a dump in which prev and next are the 0-based inorder index of
\* the node referred to (None kept), loading the dump gives a tree with the
\* same data, left and right structure and with prev and next at the same
\* inorder positions, and the dump leaves the tree unchanged.
C25_SerializationRoundTrip ==
    /\ [](pc = "threaded" => RoundTripHolds)
    /\ [][pc = "threaded" => tree' = tree]_vars

\* The same for the trees that have a root.
RoundTripOfNonEmptyTrees ==
    /\ [](pc = "threaded" /\ tree.root # NoNode => RoundTripHolds)
    /\ [][pc = "threaded" => tree' = tree]_vars

\* The subtree at v is the midpoint tree of the positions lo .. hi: v is the
\* middle position, the lower one of two, and its subtrees are the midpoint
\* trees of the positions before and after it.
RECURSIVE IsMidpointTree(_, _, _)
IsMidpointTree(v, lo, hi) ==
    IF lo > hi THEN v = NoNode
    ELSE /\ v = lo + (hi - lo) \div 2
         /\ IsMidpointTree(tree.left[v], lo, v - 1)
         /\ IsMidpointTree(tree.right[v], v + 1, hi)

\* The number of nodes of the subtree at v.
RECURSIVE SubtreeSize(_)
SubtreeSize(v) ==
    IF v = NoNode THEN 0
    ELSE 1 + SubtreeSize(tree.left[v]) + SubtreeSize(tree.right[v])

\* C27: the tree from_iterable builds from a list of n items is the
\* recursive-midpoint search tree: its root holds item (n - 1) div 2, both
\* subtrees are built the same way from the two halves, the inorder
\* traversal gives the items in the order of the list, and at every node the
\* right subtree has as many nodes as the left one or one more.
C27_MidpointSearchTree ==
    pc = "threaded" =>
        LET n == Len(given.iterable)
        IN  /\ n >= 1 => /\ tree.root = (n - 1) \div 2
                         /\ tree.data[tree.root] = given.iterable[(n - 1) \div 2 + 1]
            /\ IsMidpointTree(tree.root, 0, n - 1)
            /\ [k \in 1 .. Len(Inorder) |-> tree.data[Inorder[k]]] = given.iterable
            /\ \A v \in DOMAIN tree.left :
                  SubtreeSize(tree.right[v]) - SubtreeSize(tree.left[v]) \in {0, 1}

\* A tree of four items, not all equal: the root is the second item, with
\* one node to its left and two to its right.
C27_Witness ==
    /\ pc = "threaded"
    /\ Len(given.iterable) = 4
    /\ given.iterable[1] # given.iterable[2]
    /\ tree.root = 1
    /\ SubtreeSize(tree.left[tree.root]) = 1
    /\ SubtreeSize(tree.right[tree.root]) = 2

-----------------------------------------------------------------------------
(***************************************************************************)
(* Properties of the two sweeps of regularization.                         *)
(***************************************************************************)
\* The abscissa where the edge e meets the level y, as the fraction
\* <<numerator, denominator>> with a positive denominator.  A level edge
\* counts at the endpoint `end` of it.
AbscissaAtLevel(e, y, end) ==
    IF Y(First(e)) = Y(Second(e)) THEN <<X(end), 1>>
    ELSE <<X(First(e)) * (Y(Second(e)) - Y(First(e)))
              + (y - Y(First(e))) * (X(Second(e)) - X(First(e))),
           Y(Second(e)) - Y(First(e))>>

\* Of two swept edges a and b, a lies to the left of b where they meet the
\* level y.  Edges that meet the level in one point share an endpoint there
\* and are compared by their directions from it.  In the bottom-up sweep a
\* level edge counts at its second endpoint, in the top-down sweep at its
\* first.
SweptLeftToRight(a, b, y, bottomUp) ==
    LET xa == AbscissaAtLevel(a, y, IF bottomUp THEN Second(a) ELSE First(a))
        xb == AbscissaAtLevel(b, y, IF bottomUp THEN Second(b) ELSE First(b))
    IN  IF xa[1] * xb[2] # xb[1] * xa[2] THEN xa[1] * xb[2] < xb[1] * xa[2]
        ELSE IF Second(a) = Second(b)
        THEN LeftToRightBelow(DirectionFrom(Second(a), a), DirectionFrom(Second(a), b))
                 /\ a # b
        ELSE IF First(a) = First(b)
        THEN LeftToRightAbove(DirectionFrom(First(a), a), DirectionFrom(First(a), b))
                 /\ a # b
        ELSE FALSE

\* The nodes the running sweep has processed, and the node it is at.
Processed ==
    IF pc = "bottom_to_top" THEN {order[k] : k \in 1 .. i}
    ELSE {Reversed(order)[k] : k \in 1 .. i}

Current == IF pc = "bottom_to_top" THEN order[i + 1] ELSE Reversed(order)[i + 1]

\* swept lists exactly the edges the sweep line cuts, from left to right.
SweptIsTheCut ==
    /\ Lists(swept,
             IF pc = "bottom_to_top"
             THEN {e \in edges : First(e) \in Processed /\ Second(e) \notin Processed}
             ELSE {e \in edges : Second(e) \in Processed /\ First(e) \notin Processed})
    /\ \A k \in 1 .. Len(swept) - 1 :
          SweptLeftToRight(swept[k], swept[k + 1], Y(Current), pc = "bottom_to_top")

\* The edges of the current node that the sweep deletes are, in their sorted
\* order, the run of swept that starts at the located index.
OwnEdgesAreTheRun ==
    \A own_edges \in (IF pc = "bottom_to_top" THEN InwardEdges(edges, Current)
                      ELSE OutwardEdges(edges, Current)) :
        LET at == InsertionIndexInSweptEdges(Current, swept, own_edges)
        IN  /\ at + Len(own_edges) <= Len(swept)
            /\ SubSeq(swept, at + 1, at + Len(own_edges)) = own_edges

\* C26: on a valid planar input, when the bottom-up sweep is at node v,
\* swept holds exactly the edges whose lower endpoint is processed and whose
\* upper endpoint is not, from left to right, and the inward edges of v are
\* the run of swept at the located index, in polar order; the top-down sweep
\* mirrors this with the outward edges of v.
C26_SweepInvariant ==
    (InputIsValid /\ pc \in {"bottom_to_top", "top_to_bottom"}) =>
        SweptIsTheCut /\ OwnEdgesAreTheRun

\* The same as long as every edge regularization has added keeps the graph
\* planar.
SweepInvariantWhilePlanar ==
    (/\ InputIsValid
     /\ pc \in {"bottom_to_top", "top_to_bottom"}
     /\ \A e \in AddedEdges : EdgeIsPlanarIn(e, nodes, edges)) =>
        SweptIsTheCut /\ OwnEdgesAreTheRun

-----------------------------------------------------------------------------
(***************************************************************************)
(* More properties of the chain method.                                    *)
(***************************************************************************)
\* C28: on every input with at least one chain and for every query point
\* with an ordinate between the lowest and the highest node, search()
\* returns a (path, pair) value: it never descends into an absent child,
\* never follows an absent thread, never uses an undefined turn, and the
\* path it returns has at most (height of the tree + 1) directions.
C28_SearchCompletes ==
    InputIsValid =>
        /\ raised # "search"
        /\ pc = "descend" =>
              /\ chainNode # NoNode
              /\ ChainTurn(chains[chainNode + 1], point) # "none"
        /\ SearchReturned => Len(searchPath) <= tree.height[tree.root] + 1

\* The number of places the edge e has in the chains.
Occurrences(e) ==
    Cardinality({p \in (1 .. Len(chains)) \X (1 .. Cardinality(edges)) :
                    p[2] <= Len(chains[p[1]]) /\ chains[p[1]][p[2]] = e})

\* C29: no edge weight is ever negative, also while the chains are being
\* extracted, and when construct_monotone_chains() has returned every edge
\* of the regularized graph is in exactly as many chains as its weight after
\* balancing, which is at least one chain.
C29_ChainsConsumeBalancedFlow ==
    InputIsValid =>
        /\ \A e \in DOMAIN weight : weight[e] >= 0
        /\ ChainsConstructed =>
              \A e \in edges : /\ Occurrences(e) = BalancedWeights[e]
                               /\ Occurrences(e) >= 1

\* Chains have been extracted from a regularized graph: an added edge is in
\* one chain and another edge is in two chains or more.
C29_Witness ==
    /\ InputIsValid
    /\ ChainsConstructed
    /\ \E e \in AddedEdges : Occurrences(e) = 1
    /\ \E e \in edges : Occurrences(e) >= 2 /\ BalancedWeights[e] = Occurrences(e)

\* The step is a loop iteration of one of the two sweeps of regularize().
BottomUpStep == pc = "bottom_to_top"
TopDownStep == pc = "top_to_bottom"

\* What regularize() has left alone so far: the nodes, the edges of the
\* oriented input; and every edge it has added goes up in (y, x) order.
OnlyUpwardEdgesAdded ==
    /\ nodes = pslg.nodes
    /\ OrientedInput \subseteq edges
    /\ \A e \in AddedEdges : YXLess(First(e), Second(e))

\* C30: regularize() only adds edges.  The node set stays as it is, every
\* edge is kept with its weight, every added edge goes from a node to one
\* that is higher in (y, x) order, the bottom-up sweep adds exactly one edge
\* at each node but the first that has no inward edge and none at the other
\* nodes, the top-down sweep adds exactly one edge at each node but the
\* last that still has no outward edge and none at the other nodes, and a
\* regular graph comes out unchanged.
C30_RegularizeOnlyAddsEdges ==
    /\ [](InputIsValid /\ Len(yielded) >= 2 => OnlyUpwardEdgesAdded)
    /\ [](InputIsValid /\ Regularized /\ IsRegular(pslg.nodes, OrientedInput)
              => yielded[5].edges = OrientedInput)
    /\ [][InputIsValid /\ (BottomUpStep \/ TopDownStep) =>
              \A e \in edges : e \in edges' /\ weight'[e] = weight[e]]_vars
    /\ [][InputIsValid /\ BottomUpStep =>
              Cardinality(edges' \ edges) =
                  IF i # 0 /\ EdgesInto(edges, order[i + 1]) = {} THEN 1 ELSE 0]_vars
    /\ [][InputIsValid /\ TopDownStep =>
              Cardinality(edges' \ edges) =
                  IF i # 0 /\ EdgesOutOf(edges, Reversed(order)[i + 1]) = {}
                  THEN 1 ELSE 0]_vars

\* regularize() has returned after it added an edge in each sweep.
C30_Witness ==
    /\ InputIsValid
    /\ Regularized
    /\ \E e \in yielded[5].edges \ OrientedInput :
          EdgesInto(OrientedInput, Second(e)) = {}
    /\ \E e \in yielded[5].edges \ OrientedInput :
          EdgesOutOf(OrientedInput, First(e)) = {}
=============================================================================
